---- MODULE Spec2Model ----
(***************************************************************************)
(* A model of the rfb server engine: the wire codec of src/src/rfb.rs and  *)
(* the handshake and message loop of src/src/server.rs, for one connection *)
(* of one Server, with the embedding program calling the setters           *)
(* concurrently.                                                           *)
(*                                                                         *)
(* The stream is a pair of byte sequences: out holds every byte the server *)
(* has written, inp the bytes the client has sent in the established phase *)
(* and the server has not consumed yet.  The three reads of the handshake  *)
(* have a fixed length, so their bytes are drawn when the read completes.  *)
(* A composite write_to either completes or fails as a whole.              *)
(***************************************************************************)
EXTENDS Integers, Sequences, FiniteSets, TLC

\* ------------------------------------------------------------------ bounds
\* Number of chunks the client sends in the established phase.
MaxMsgs == 2
\* Number of rectangles in an update returned by the producer.
MaxRects == 1
\* Number of text bytes announced by a ClientCutText message.
MaxText == 2
\* Largest byte value the client sends as its security-type choice.
MaxChoiceByte == 9
\* Number of clients that connect to the example server.
MaxConns == 2

\* ------------------------------------------------------------- wire codec
Byte == 0..255

\* tokio write_u16 / write_u32: network byte order.
U16(v) == << (v \div 256) % 256, v % 256 >>
U32(v) == << (v \div 16777216) % 256, (v \div 65536) % 256,
             (v \div 256) % 256, v % 256 >>
\* tokio write_i32: two's complement (\div rounds down, % is non-negative).
I32(v) == U32(v)
\* tokio read_u16 / read_u32 at position i of s.  TLC's integers have 32
\* bits: a u32 is modelled for values below 2^31 (first byte below 128).
BE16(s, i) == s[i] * 256 + s[i + 1]
BE32(s, i) == ((s[i] * 256 + s[i + 1]) * 256 + s[i + 2]) * 256 + s[i + 3]
\* tokio read_i32: two's complement.
BEI32(s, i) ==
    (((IF s[i] >= 128 THEN s[i] - 256 ELSE s[i]) * 256 + s[i + 1]) * 256
        + s[i + 2]) * 256 + s[i + 3]

Drop(s, n) == SubSeq(s, n + 1, Len(s))

\* ------------------------------------------------------------ ProtoVersion
ProtoVersions == {"Rfb33", "Rfb37", "Rfb38"}
\* derive(PartialOrd) on the enum: declaration order.
VersionOrdMutant(v) == CASE v = "Rfb33" -> 1 [] v = "Rfb37" -> 0 [] v = "Rfb38" -> 2
VersionOrd(v) == CASE v = "Rfb33" -> 0 [] v = "Rfb37" -> 1 [] v = "Rfb38" -> 2
VersionLtMutant(a, b) == VersionOrd(a) > VersionOrd(b)
VersionLt(a, b) == VersionOrd(a) < VersionOrd(b)

\* "RFB 003.00" and the trailing "\n".
VersionPrefix == <<82, 70, 66, 32, 48, 48, 51, 46, 48, 48>>
VersionBytes(v) ==
    VersionPrefix \o << CASE v = "Rfb33" -> 51 [] v = "Rfb37" -> 55
                           [] v = "Rfb38" -> 56, 10 >>
\* ProtoVersion::read_from on the 12 bytes read.
ProtoVersion_read_from(buf) ==
    IF buf = VersionBytes("Rfb33") THEN [ok |-> TRUE, v |-> "Rfb33"]
    ELSE IF buf = VersionBytes("Rfb37") THEN [ok |-> TRUE, v |-> "Rfb37"]
    ELSE IF buf = VersionBytes("Rfb38") THEN [ok |-> TRUE, v |-> "Rfb38"]
    ELSE [ok |-> FALSE, v |-> "invalid"]

\* ------------------------------------------------------------ SecurityType
\* SecurityType::read_from on the byte read.
SecurityType_read_from(t) ==
    CASE t = 1 -> [ok |-> TRUE, t |-> "None"]
      [] t = 2 -> [ok |-> TRUE, t |-> "VncAuthentication"]
      [] OTHER -> [ok |-> FALSE, t |-> "invalid"]
\* SecurityType::write_to: the byte written.
SecurityType_write_to(t) ==
    CASE t = "None" -> 0 [] t = "VncAuthentication" -> 1
\* SecurityTypes::write_to: count, then each type.
SecurityTypes_write_to(ts) ==
    << Len(ts) % 256 >> \o [i \in 1..Len(ts) |-> SecurityType_write_to(ts[i])]

\* "unsupported security type"
FailureReason ==
    <<117, 110, 115, 117, 112, 112, 111, 114, 116, 101, 100, 32, 115, 101, 99,
      117, 114, 105, 116, 121, 32, 116, 121, 112, 101>>
\* SecurityResult::write_to.
SecurityResult_write_toMutant(r) ==
    IF r = "Success" THEN U32(1) ELSE U32(0) \o FailureReason
SecurityResult_write_to(r) ==
    IF r = "Success" THEN U32(0) ELSE U32(1) \o FailureReason

\* ClientInit::read_from on the byte read.
ClientInit_read_fromMutant(flag) == [shared |-> flag = 1]
ClientInit_read_from(flag) == [shared |-> flag # 0]

\* ------------------------------------------------------------- PixelFormat
\* pixel_formats::rgb_888 (not among the sources; from the specification).
rgb_888_BITS_PER_PIXEL == 32
rgb_888_DEPTH == 24
rgb_888_MAX_VALUE == 255
rgb_888_valid_shift(shift) == shift % 8 = 0

ColorFormat(rm, gm, bm, rs, gs, bs) ==
    [kind |-> "ColorFormat", red_max |-> rm, green_max |-> gm, blue_max |-> bm,
     red_shift |-> rs, green_shift |-> gs, blue_shift |-> bs]
ColorMap == [kind |-> "ColorMap"]

\* PixelFormat::new_colorformat.
new_colorformat(bbp, depth, big_endian, rs, rm, gs, gm, bs, bm) ==
    [bits_per_pixel |-> bbp, depth |-> depth, big_endian |-> big_endian,
     color_spec |-> ColorFormat(rm, gm, bm, rs, gs, bs)]

\* PixelFormat::is_rgb_888.
is_rgb_888Mutant(pf) ==
    IF pf.bits_per_pixel # rgb_888_BITS_PER_PIXEL
    THEN FALSE
    ELSE IF pf.color_spec.kind = "ColorFormat"
         THEN /\ pf.color_spec.red_max = rgb_888_MAX_VALUE
              /\ pf.color_spec.green_max = rgb_888_MAX_VALUE
              /\ pf.color_spec.blue_max = rgb_888_MAX_VALUE
              /\ rgb_888_valid_shift(pf.color_spec.red_shift)
              /\ rgb_888_valid_shift(pf.color_spec.green_shift)
              /\ rgb_888_valid_shift(pf.color_spec.blue_shift)
         ELSE FALSE
is_rgb_888(pf) ==
    IF pf.bits_per_pixel # rgb_888_BITS_PER_PIXEL \/ pf.depth # rgb_888_DEPTH
    THEN FALSE
    ELSE IF pf.color_spec.kind = "ColorFormat"
         THEN /\ pf.color_spec.red_max = rgb_888_MAX_VALUE
              /\ pf.color_spec.green_max = rgb_888_MAX_VALUE
              /\ pf.color_spec.blue_max = rgb_888_MAX_VALUE
              /\ rgb_888_valid_shift(pf.color_spec.red_shift)
              /\ rgb_888_valid_shift(pf.color_spec.green_shift)
              /\ rgb_888_valid_shift(pf.color_spec.blue_shift)
         ELSE FALSE

\* ColorSpecification::write_to (ColorFormat arm; the ColorMap arm is
\* unimplemented!() and no format of the model's session takes it).
ColorSpecification_write_to(cs) ==
    <<1>> \o U16(cs.red_max) \o U16(cs.green_max) \o U16(cs.blue_max)
          \o << cs.red_shift, cs.green_shift, cs.blue_shift >>
\* PixelFormat::write_to: 16 bytes.
PixelFormat_write_to(pf) ==
    << pf.bits_per_pixel, pf.depth, IF pf.big_endian THEN 1 ELSE 0 >>
        \o ColorSpecification_write_to(pf.color_spec) \o <<0, 0, 0>>

\* PixelFormat::read_from with ColorSpecification::read_from inlined, on the
\* bytes of s from position 1: res is "ok", "short" (the stream holds too few
\* bytes: the read waits, or fails at end of stream) or "panic"
\* (unimplemented!() for a true-colour flag of 0).
PixelFormat_read_fromMutant(s) ==
    IF Len(s) < 4 THEN [res |-> "short", used |-> Len(s)]
    ELSE IF s[4] = 0 THEN [res |-> "panic", used |-> 4]
    ELSE IF Len(s) < 16 THEN [res |-> "short", used |-> Len(s)]
    ELSE [res |-> "ok", used |-> 16,
          pf |-> [bits_per_pixel |-> s[1], depth |-> s[2],
                  big_endian |-> s[3] # 0,
                  color_spec |-> ColorFormat(BE16(s, 5), BE16(s, 7), BE16(s, 9),
                                             s[13], s[12], s[11])]]
PixelFormat_read_from(s) ==
    IF Len(s) < 4 THEN [res |-> "short", used |-> Len(s)]
    ELSE IF s[4] = 0 THEN [res |-> "panic", used |-> 4]
    ELSE IF Len(s) < 16 THEN [res |-> "short", used |-> Len(s)]
    ELSE [res |-> "ok", used |-> 16,
          pf |-> [bits_per_pixel |-> s[1], depth |-> s[2],
                  big_endian |-> s[3] # 0,
                  color_spec |-> ColorFormat(BE16(s, 5), BE16(s, 7), BE16(s, 9),
                                             s[11], s[12], s[13])]]

\* ----------------------------------------------------- pixel transform
\* pixel_formats::transform (not among the sources; from section 4.4 of the
\* specification): the byte index of a channel in a 4-byte pixel.
color_shift_to_index(shift, big_endian) ==
    IF big_endian THEN 3 - (shift \div 8) ELSE shift \div 8
unused_index(r, g, b) == CHOOSE i \in 0..3 : i \notin {r, g, b}
\* One pixel p (4 bytes) re-expressed from format ipf in format opf.
TransformPixel(p, ipf, opf) ==
    LET ir == color_shift_to_index(ipf.color_spec.red_shift, ipf.big_endian)
        ig == color_shift_to_index(ipf.color_spec.green_shift, ipf.big_endian)
        ib == color_shift_to_index(ipf.color_spec.blue_shift, ipf.big_endian)
        or == color_shift_to_index(opf.color_spec.red_shift, opf.big_endian)
        og == color_shift_to_index(opf.color_spec.green_shift, opf.big_endian)
        ob == color_shift_to_index(opf.color_spec.blue_shift, opf.big_endian)
        ix == unused_index(ir, ig, ib)
    IN  [k \in 1..4 |->
            CASE k - 1 = or -> p[ir + 1]
              [] k - 1 = og -> p[ig + 1]
              [] k - 1 = ob -> p[ib + 1]
              [] OTHER -> p[ix + 1]]
\* The whole payload, pixel by pixel; the result has the input's length.
transform(pixels, ipf, opf) ==
    [k \in 1..Len(pixels) |->
        LET base == ((k - 1) \div 4) * 4
        IN  IF base + 4 <= Len(pixels)
            THEN TransformPixel(SubSeq(pixels, base + 1, base + 4), ipf, opf)[k - base]
            ELSE pixels[k]]

\* ------------------------------------------------- Rectangle, FramebufferUpdate
\* encodings::EncodingType into i32 for RawEncoding (from the protocol: 0).
EncodingType_Raw == 0
\* encodings::RawEncoding: get_type, encode, transform.
RawEncoding(pixels) == [type |-> "Raw", pixels |-> pixels]
Encoding_get_type(e) == EncodingType_Raw
Encoding_encode(e) == e.pixels
Encoding_transform(e, ipf, opf) == RawEncoding(transform(e.pixels, ipf, opf))

\* Rectangle::new.
Rectangle(x, y, w, h, data) ==
    [position |-> [x |-> x, y |-> y],
     dimensions |-> [width |-> w, height |-> h], data |-> data]
\* Rectangle::transform.
Rectangle_transform(r, ipf, opf) ==
    [position |-> r.position, dimensions |-> r.dimensions,
     data |-> Encoding_transform(r.data, ipf, opf)]
\* FramebufferUpdate::transform; an update is the sequence of its rectangles.
FramebufferUpdate_transformMutant(fbu, ipf, opf) ==
    [i \in 1..Len(fbu) |-> Rectangle_transform(fbu[Len(fbu) + 1 - i], ipf, opf)]
FramebufferUpdate_transform(fbu, ipf, opf) ==
    [i \in 1..Len(fbu) |-> Rectangle_transform(fbu[i], ipf, opf)]

\* Rectangle::write_to.
Rectangle_write_to(r) ==
    U16(r.position.x) \o U16(r.position.y)
        \o U16(r.dimensions.width) \o U16(r.dimensions.height)
        \o I32(Encoding_get_type(r.data)) \o Encoding_encode(r.data)
RECURSIVE RectanglesBytes(_)
RectanglesBytes(rs) ==
    IF rs = <<>> THEN <<>>
    ELSE Rectangle_write_to(Head(rs)) \o RectanglesBytes(Tail(rs))
\* let n_rect = self.rectangles.len() as u16.
FramebufferUpdate_n_rect(fbu) == Len(fbu) % 65536
\* FramebufferUpdate::write_to: type, padding, count as u16, rectangles.
FramebufferUpdate_write_to(fbu) ==
    <<0, 0>> \o U16(FramebufferUpdate_n_rect(fbu)) \o RectanglesBytes(fbu)

\* Resolution::write_to.
Resolution_write_to(res) == U16(res.width) \o U16(res.height)
\* ServerInit::new and ServerInit::write_to.
ServerInit(width, height, name, pixel_format) ==
    [initial_res |-> [width |-> width, height |-> height],
     pixel_format |-> pixel_format, name |-> name]
ServerInit_write_to(si) ==
    Resolution_write_to(si.initial_res) \o PixelFormat_write_to(si.pixel_format)
        \o U32(Len(si.name)) \o si.name

\* ------------------------------------------------------------ ClientMessage
\* encodings::EncodingType::try_from and keysym::KeySym::try_from are not
\* among the sources.  From the specification: an unrecognized encoding
\* identifier fails the decode (Raw, 0, is the one encoding implemented), and
\* the raw keysym value is kept beside its classification.
EncodingType_try_from(v) == [ok |-> v = EncodingType_Raw, e |-> v]
KeySym_try_from(v) == [ok |-> TRUE, k |-> v]

\* Number of text bytes the ClientCutText arm reads after the length len:
\* the buffer is Vec::with_capacity(len), whose length is 0, and read_exact
\* fills a slice of the buffer's length.
CutTextBufLen(len) == 0

\* bitflags from_bits_truncate on the 7 defined button bits.
MouseButtons_from_bits_truncate(mask) == mask % 128

\* Position::read_from / Resolution::read_from at position i of s.
Position_read_from(s, i) == [x |-> BE16(s, i), y |-> BE16(s, i + 2)]
Resolution_read_from(s, i) == [width |-> BE16(s, i), height |-> BE16(s, i + 2)]

Short(s) == [res |-> "short", used |-> Len(s)]

\* The SetEncodings arm on s (the tag at s[1]).
ReadSetEncodingsMutant(s) ==
    IF Len(s) < 4 THEN Short(s)
    ELSE LET n == BE16(s, 3) + 1
             avail == (Len(s) - 4) \div 4
             enc(i) == BEI32(s, 4 * i + 1)
             bad == {i \in 1..n : i <= avail /\ ~EncodingType_try_from(enc(i)).ok}
         IN  IF bad # {}
             THEN LET i == CHOOSE j \in bad : \A k \in bad : j <= k
                  IN  [res |-> "err", used |-> 4 + 4 * i,
                       err |-> "unknown encoding type"]
             ELSE IF avail < n THEN Short(s)
             ELSE [res |-> "ok", used |-> 4 + 4 * n,
                   msg |-> [type |-> "SetEncodings",
                            encodings |-> [i \in 1..n |-> enc(i)]]]
ReadSetEncodings(s) ==
    IF Len(s) < 4 THEN Short(s)
    ELSE LET n == BE16(s, 3)
             avail == (Len(s) - 4) \div 4
             enc(i) == BEI32(s, 4 * i + 1)
             bad == {i \in 1..n : i <= avail /\ ~EncodingType_try_from(enc(i)).ok}
         IN  IF bad # {}
             THEN LET i == CHOOSE j \in bad : \A k \in bad : j <= k
                  IN  [res |-> "err", used |-> 4 + 4 * i,
                       err |-> "unknown encoding type"]
             ELSE IF avail < n THEN Short(s)
             ELSE [res |-> "ok", used |-> 4 + 4 * n,
                   msg |-> [type |-> "SetEncodings",
                            encodings |-> [i \in 1..n |-> enc(i)]]]

\* ClientMessage::read_from on the unread bytes s of the stream: the decoded
\* message and the number of bytes consumed.  res is "ok", "err" (the decode
\* returns an error), "short" (the read waits for bytes s does not hold, or
\* fails when the stream has ended) or "panic".
ClientMessage_read_from(s) ==
    IF Len(s) < 1 THEN Short(s)
    ELSE CASE s[1] = 0 ->
                IF Len(s) < 4 THEN Short(s)
                ELSE LET r == PixelFormat_read_from(Drop(s, 4))
                     IN  IF r.res = "ok"
                         THEN [res |-> "ok", used |-> 4 + r.used,
                               msg |-> [type |-> "SetPixelFormat", pf |-> r.pf]]
                         ELSE [res |-> r.res, used |-> 4 + r.used]
           [] s[1] = 2 -> ReadSetEncodings(s)
           [] s[1] = 3 ->
                IF Len(s) < 10 THEN Short(s)
                ELSE [res |-> "ok", used |-> 10,
                      msg |-> [type |-> "FramebufferUpdateRequest",
                               incremental |-> s[2] # 0,
                               position |-> Position_read_from(s, 3),
                               resolution |-> Resolution_read_from(s, 7)]]
           [] s[1] = 4 ->
                IF Len(s) < 8 THEN Short(s)
                ELSE LET keysym_raw == BE32(s, 5)
                     IN  IF KeySym_try_from(keysym_raw).ok
                         THEN [res |-> "ok", used |-> 8,
                               msg |-> [type |-> "KeyEvent", is_pressed |-> s[2] # 0,
                                        keysym |-> KeySym_try_from(keysym_raw).k,
                                        keysym_raw |-> keysym_raw]]
                         ELSE [res |-> "err", used |-> 8, err |-> "unknown keysym"]
           [] s[1] = 5 ->
                IF Len(s) < 6 THEN Short(s)
                ELSE [res |-> "ok", used |-> 6,
                      msg |-> [type |-> "PointerEvent",
                               position |-> Position_read_from(s, 3),
                               pressed |-> MouseButtons_from_bits_truncate(s[2])]]
           [] s[1] = 6 ->
                IF Len(s) < 8 THEN Short(s)
                ELSE LET len == BE32(s, 5)
                         n == CutTextBufLen(len)
                     IN  IF Len(s) < 8 + n THEN Short(s)
                         ELSE [res |-> "ok", used |-> 8 + n,
                               msg |-> [type |-> "ClientCutText",
                                        text |-> SubSeq(s, 9, 8 + n)]]
           [] OTHER -> [res |-> "err", used |-> 1,
                        err |-> "unknown client message type"]

\* ------------------------------------------------------------ environment
\* What the embedding program passes in.  The examples pass 1024 x 768, a
\* little-endian RGB888 format, Rfb38, both security types and the name
\* "rfb-example-server"; ExampleArgs adds a server that offers None alone.
Resolutions == { [width |-> 1024, height |-> 768], [width |-> 800, height |-> 600] }
PF_RGBx == new_colorformat(rgb_888_BITS_PER_PIXEL, rgb_888_DEPTH, FALSE,
                           0, rgb_888_MAX_VALUE, 8, rgb_888_MAX_VALUE,
                           16, rgb_888_MAX_VALUE)
PF_BGRx == new_colorformat(rgb_888_BITS_PER_PIXEL, rgb_888_DEPTH, FALSE,
                           16, rgb_888_MAX_VALUE, 8, rgb_888_MAX_VALUE,
                           0, rgb_888_MAX_VALUE)
PF_565 == new_colorformat(16, 16, FALSE, 11, 31, 5, 63, 0, 31)
\* A format no well-behaved client asks for: 24 bits per pixel, depth 32.
PF_24 == new_colorformat(24, 32, FALSE, 16, 255, 8, 255, 0, 255)
InputFormats == {PF_RGBx, PF_565}
ClientFormats == {PF_RGBx, PF_BGRx, PF_565, PF_24}

\* "rfb-example-server"
ExampleName ==
    <<114, 102, 98, 45, 101, 120, 97, 109, 112, 108, 101, 45, 115, 101, 114,
      118, 101, 114>>
ExampleArgs ==
    [version : {"Rfb38"},
     sec_types : {<<"None", "VncAuthentication">>, <<"None">>},
     name : {ExampleName}]
\* Every version, the security-type lists a caller can build from the two
\* types (the empty one included), a short name "rfb".
AllArgs ==
    [version : ProtoVersions,
     sec_types : {<<>>, <<"None">>, <<"None", "VncAuthentication">>},
     name : {<<114, 102, 98>>}]

\* The 12 bytes a client sends as its version: the three versions and
\* "RFB 003.009\n", which is none of them.
ClientVersionInputs ==
    {VersionBytes(v) : v \in ProtoVersions} \cup {VersionPrefix \o <<57, 10>>}
ChoiceBytes == 0..MaxChoiceByte
ClientInitBytes == {0, 1, 255}

\* The producer callback returns up to MaxRects rectangles of one pixel.
Pixel == <<170, 187, 204, 221>>
ProducerRects ==
    { Rectangle(0, 0, 1, 1, RawEncoding(Pixel)) }
Updates == UNION { [1..n -> ProducerRects] : n \in 0..MaxRects }

\* The chunks a client sends in the established phase: one well-formed
\* message of each type, SetPixelFormat for each client format and for a
\* colour map (true-colour flag 0), SetEncodings with an unrecognized
\* identifier, ClientCutText with 0..MaxText bytes of text "A", and lone bytes
\* that are no message type.
ClientSetPixelFormat(pf) == <<0, 0, 0, 0>> \o PixelFormat_write_to(pf)
ClientSetPixelFormatColorMap ==
    <<0, 0, 0, 0>> \o <<8, 8, 0, 0>> \o U16(0) \o U16(0) \o U16(0)
        \o <<0, 0, 0>> \o <<0, 0, 0>>
ClientSetEncodings(es) ==
    <<2, 0>> \o U16(Len(es))
        \o [k \in 1..(4 * Len(es)) |-> I32(es[((k - 1) \div 4) + 1])[((k - 1) % 4) + 1]]
ClientFramebufferUpdateRequest ==
    <<3, 0>> \o U16(0) \o U16(0) \o U16(1) \o U16(1)
ClientKeyEvent == <<4, 1, 0, 0>> \o U32(65)
ClientPointerEvent == <<5, 1>> \o U16(2) \o U16(3)
ClientCutText(n) == <<6, 0, 0, 0>> \o U32(n) \o [i \in 1..n |-> 65]
UnknownTags == {1, 7, 255}
\* A message that arrives in two parts: the first PartLen bytes of a
\* FramebufferUpdateRequest, and the rest of it.
PartLen == 3
ClientParts ==
    { SubSeq(ClientFramebufferUpdateRequest, 1, PartLen),
      SubSeq(ClientFramebufferUpdateRequest, PartLen + 1,
             Len(ClientFramebufferUpdateRequest)) }
ClientChunks ==
    {ClientSetPixelFormat(pf) : pf \in ClientFormats}
        \cup {ClientSetPixelFormatColorMap}
        \cup {ClientSetEncodings(<<0>>), ClientSetEncodings(<<>>),
              ClientSetEncodings(<<-239>>)}
        \cup {ClientFramebufferUpdateRequest, ClientKeyEvent, ClientPointerEvent}
        \cup {ClientCutText(n) : n \in 0..MaxText}
        \cup {<<t>> : t \in UnknownTags}
        \cup ClientParts

\* ------------------------------------------------------------------ state
VARIABLES
    state,        \* ServerState behind Server.state
    lock,         \* who holds the tokio Mutex: "free" or "conn"
    pc,           \* where the connection's task is
    args,         \* the arguments of initialize
    client_version, \* rfb_handshake's client_version
    client_choice, \* rfb_handshake's client_choice, while it is in scope
    err,          \* what initialize returned
    out,          \* every byte the server wrote to the stream
    inp,          \* bytes the client sent that the server has not read
    nsent,        \* chunks the client sent in the established phase
    nread,        \* bytes the server consumed from the stream
    trace,        \* the completed reads (Rx) and writes (Tx) of the task, in order
    client_init,  \* rfb_initialization's client_init
    server_init,  \* rfb_initialization's server_init
    req_pf,       \* process: pf of the SetPixelFormat being handled
    produced,     \* process: what updatef() returned
    fbu,          \* process: the update about to be written
    rbuf,         \* bytes a read that is still waiting has already consumed
    wdone,        \* bytes of the message being written that have got through
    call,         \* a call of a function of the library: its name and argument
    ret,          \* what that call returned
    accept,       \* the example's main: where its accept loop is, and on which client
    conns         \* the example's clients: each one's task, Server state, updates sent

vars == << state, lock, pc, args, client_version, client_choice, err, out, inp, nsent, nread, trace,
           client_init, server_init, req_pf, produced, fbu, rbuf, wdone, call, ret, accept,
           conns >>

None == [kind |-> "none"]
NoErr == [kind |-> "ok", text |-> ""]
\* anyhow!(text) / bail!(text), and an std::io::Error carried by `?`.
MsgErr(text) == [kind |-> "msg", text |-> text]
IoErr == [kind |-> "io", text |-> "io error"]

\* Server::new.
Server_new(width, height, input_format) ==
    [width |-> width, height |-> height,
     output_format |-> input_format, input_format |-> input_format]

Init ==
    /\ \E r \in Resolutions, f \in InputFormats :
          state = Server_new(r.width, r.height, f)
    /\ lock = "free"
    /\ pc = "new"
    /\ args = None
    /\ client_version = "none"
    /\ client_choice = "none"
    /\ err = NoErr
    /\ out = <<>>
    /\ inp = <<>>
    /\ nsent = 0
    /\ nread = 0
    /\ trace = <<>>
    /\ client_init = None
    /\ server_init = None
    /\ req_pf = None
    /\ produced = <<>>
    /\ fbu = <<>>
    /\ rbuf = <<>>
    /\ wdone = 0
    /\ call = None
    /\ ret = None
    /\ accept = [pc |-> "start", conn |-> 0, pf |-> None, image |-> "none"]
    /\ conns = [c \in 1..MaxConns |-> [pc |-> "pending", state |-> None, served |-> FALSE]]

\* What no step of the connection's task or of the setters touches.
outside == << call, ret, accept, conns >>

conn_locals == << client_version, client_choice, client_init, server_init, req_pf,
                 produced, fbu >>

\* How far the read and the write in progress have got.
io_pos == << rbuf, wdone >>

\* ----------------------------------------------------------------- setters
\* Server::set_pixel_format: lock, assign, unlock, with no suspension between.
set_pixel_formatMutant(pixel_format) ==
    /\ lock = "free"
    /\ state' = [state EXCEPT !.input_format = pixel_format,
                              !.output_format = pixel_format]
    /\ UNCHANGED outside
    /\ UNCHANGED io_pos
    /\ UNCHANGED << lock, pc, args, err, out, inp, nsent, nread, trace, conn_locals >>
set_pixel_format(pixel_format) ==
    /\ lock = "free"
    /\ state' = [state EXCEPT !.input_format = pixel_format]
    /\ UNCHANGED outside
    /\ UNCHANGED io_pos
    /\ UNCHANGED << lock, pc, args, err, out, inp, nsent, nread, trace, conn_locals >>

\* Server::set_resolution.
set_resolution(width, height) ==
    /\ lock = "free"
    /\ state' = [state EXCEPT !.width = width, !.height = height]
    /\ UNCHANGED outside
    /\ UNCHANGED io_pos
    /\ UNCHANGED << lock, pc, args, err, out, inp, nsent, nread, trace, conn_locals >>

\* ---------------------------------------------------------------- handshake
\* A write of the bytes B is a chain of awaited writes (write_u8, write_u16,
\* write_all, ...): the task can return to the executor, or the stream can
\* fail, with any part of B on the stream.  A step leaves the first k bytes
\* of B written: Through(B, k) is what it adds to those already through.
Through(B, k) == SubSeq(B, wdone + 1, k)
WaitPoints(B) == 1..(Len(B) - 1)
\* read_exact and the read_u8/u16/u32 built on it consume what has arrived
\* and wait for the rest: p is what the read has so far of the bytes b.
IsPrefix(p, b) == Len(p) <= Len(b) /\ SubSeq(b, 1, Len(p)) = p

\* initialize returns Err(e): `?` or bail!.
Fail(e) ==
    /\ pc' = "hs_failed"
    /\ err' = e

\* Server::initialize up to the first suspension: the assertion.
InitializeMutant(a) ==
    /\ pc = "new"
    /\ pc' = "write_version"
    /\ args' = a
    /\ UNCHANGED outside
    /\ UNCHANGED io_pos
    /\ UNCHANGED << state, lock, err, out, inp, nsent, nread, trace, conn_locals >>
Initialize(a) ==
    /\ pc = "new"
    /\ IF Len(a.sec_types) > 0
       THEN pc' = "write_version"
       ELSE pc' = "panic"
    /\ args' = a
    /\ UNCHANGED outside
    /\ UNCHANGED io_pos
    /\ UNCHANGED << state, lock, err, out, inp, nsent, nread, trace, conn_locals >>

\* version.write_to(s).await?
WriteVersion ==
    /\ pc = "write_version"
    /\ LET B == VersionBytes(args.version)
       IN  \/ /\ out' = out \o Through(B, Len(B))
              /\ wdone' = 0
              /\ trace' = Append(trace, "Tx: ProtoVersion")
              /\ pc' = "read_version"
              /\ UNCHANGED err
           \/ /\ \E k \in WaitPoints(B) :
                    /\ k > wdone
                    /\ out' = out \o Through(B, k)
                    /\ wdone' = k
              /\ UNCHANGED << pc, err, trace >>
           \/ /\ \E k \in wdone..(Len(B) - 1) : out' = out \o Through(B, k)
              /\ wdone' = 0
              /\ Fail(IoErr)
              /\ UNCHANGED trace
    /\ UNCHANGED outside
    /\ UNCHANGED rbuf
    /\ UNCHANGED << state, lock, args, inp, nsent, nread, conn_locals >>

\* ProtoVersion::read_from(s).await? and the comparison with version.
ReadVersion(buf) ==
    /\ pc = "read_version"
    /\ IsPrefix(rbuf, buf)
    /\ nread' = nread + Len(buf) - Len(rbuf)
    /\ rbuf' = <<>>
    /\ LET r == ProtoVersion_read_from(buf)
       IN  IF ~r.ok
           THEN /\ Fail(MsgErr("invalid protocol version"))
                /\ UNCHANGED << trace, client_version >>
           ELSE /\ trace' = Append(trace, "Rx: ClientVersion")
                /\ client_version' = r.v
                /\ IF VersionLt(r.v, args.version)
                   THEN Fail(MsgErr("unsupported client version"))
                   ELSE pc' = "write_sec_types" /\ UNCHANGED err
    /\ UNCHANGED outside
    /\ UNCHANGED wdone
    /\ UNCHANGED << state, lock, args, out, inp, nsent,
                    client_choice, client_init, server_init, req_pf, produced, fbu >>

\* The first k bytes of the client's version are there: read_exact takes
\* them and waits for the rest.
ReadVersionPart(buf, k) ==
    /\ pc = "read_version"
    /\ IsPrefix(rbuf, buf)
    /\ Len(rbuf) < k
    /\ k < Len(buf)
    /\ rbuf' = SubSeq(buf, 1, k)
    /\ nread' = nread + k - Len(rbuf)
    /\ UNCHANGED outside
    /\ UNCHANGED wdone
    /\ UNCHANGED << state, lock, pc, args, err, out, inp, nsent, trace, conn_locals >>

\* The bytes a read of the handshake asks for: 12 for the version, 1 for
\* the security type and for ClientInit.
ReadSize(p) == IF p = "read_version" THEN 12 ELSE 1

\* A read of the handshake fails: the stream ended, after the bytes that
\* were there (fewer than the read asked for) have been consumed.
ReadEof ==
    /\ pc \in {"read_version", "read_choice", "read_client_init"}
    /\ \E k \in Len(rbuf)..(ReadSize(pc) - 1) : nread' = nread + k - Len(rbuf)
    /\ rbuf' = <<>>
    /\ Fail(IoErr)
    /\ UNCHANGED outside
    /\ UNCHANGED wdone
    /\ UNCHANGED << state, lock, args, out, inp, nsent, trace, conn_locals >>

\* supported_types.write_to(s).await?
WriteSecTypes ==
    /\ pc = "write_sec_types"
    /\ LET B == SecurityTypes_write_to(args.sec_types)
       IN  \/ /\ out' = out \o Through(B, Len(B))
              /\ wdone' = 0
              /\ trace' = Append(trace, "Tx: SecurityTypes")
              /\ pc' = "read_choice"
              /\ UNCHANGED err
           \/ /\ \E k \in WaitPoints(B) :
                    /\ k > wdone
                    /\ out' = out \o Through(B, k)
                    /\ wdone' = k
              /\ UNCHANGED << pc, err, trace >>
           \/ /\ \E k \in wdone..(Len(B) - 1) : out' = out \o Through(B, k)
              /\ wdone' = 0
              /\ Fail(IoErr)
              /\ UNCHANGED trace
    /\ UNCHANGED outside
    /\ UNCHANGED rbuf
    /\ UNCHANGED << state, lock, args, inp, nsent, nread, conn_locals >>

\* sec_types.0.contains(&client_choice)
Contains(ts, t) == \E i \in 1..Len(ts) : ts[i] = t

\* SecurityType::read_from(s).await? and the test of the choice.
ReadChoice(t) ==
    /\ pc = "read_choice"
    /\ nread' = nread + 1
    /\ LET r == SecurityType_read_from(t)
       IN  IF ~r.ok
           THEN Fail(MsgErr("invalid security type")) /\ UNCHANGED << trace, client_choice >>
           ELSE /\ trace' = Append(trace, "Rx: SecurityType Choice")
                /\ client_choice' = r.t
                /\ pc' = IF Contains(args.sec_types, r.t)
                         THEN "write_success" ELSE "write_failure"
                /\ UNCHANGED err
    /\ UNCHANGED outside
    /\ UNCHANGED io_pos
    /\ UNCHANGED << state, lock, args, out, inp, nsent,
                    client_version, client_init, server_init, req_pf, produced, fbu >>

\* failure.write_to(s).await? and bail!; rfb_handshake returns, and its
\* client_choice is gone.
WriteFailure ==
    /\ pc = "write_failure"
    /\ LET B == SecurityResult_write_to("Failure")
       IN  \/ /\ out' = out \o Through(B, Len(B))
              /\ wdone' = 0
              /\ trace' = Append(trace, "Tx: SecurityResult=Failure")
              /\ Fail(MsgErr("invalid security choice"))
              /\ client_choice' = "none"
           \/ /\ \E k \in WaitPoints(B) :
                    /\ k > wdone
                    /\ out' = out \o Through(B, k)
                    /\ wdone' = k
              /\ UNCHANGED << pc, err, trace, client_choice >>
           \/ /\ \E k \in wdone..(Len(B) - 1) : out' = out \o Through(B, k)
              /\ wdone' = 0
              /\ Fail(IoErr)
              /\ client_choice' = "none"
              /\ UNCHANGED trace
    /\ UNCHANGED outside
    /\ UNCHANGED rbuf
    /\ UNCHANGED << state, lock, args, inp, nsent, nread,
                    client_version, client_init, server_init, req_pf, produced, fbu >>

\* res.write_to(s).await? for SecurityResult::Success.
WriteSuccessMutant ==
    /\ pc = "write_success"
    /\ LET B == (IF client_choice = "VncAuthentication"
                THEN [i \in 1..16 |-> 0] ELSE <<>>)
                   \o SecurityResult_write_to("Success")
       IN  \/ /\ out' = out \o Through(B, Len(B))
              /\ wdone' = 0
              /\ trace' = Append(trace, "Tx: SecurityResult=Success")
              /\ pc' = "read_client_init"
              /\ client_choice' = "none"
              /\ UNCHANGED err
           \/ /\ \E k \in WaitPoints(B) :
                    /\ k > wdone
                    /\ out' = out \o Through(B, k)
                    /\ wdone' = k
              /\ UNCHANGED << pc, err, trace, client_choice >>
           \/ /\ \E k \in wdone..(Len(B) - 1) : out' = out \o Through(B, k)
              /\ wdone' = 0
              /\ Fail(IoErr)
              /\ client_choice' = "none"
              /\ UNCHANGED trace
    /\ UNCHANGED outside
    /\ UNCHANGED rbuf
    /\ UNCHANGED << state, lock, args, inp, nsent, nread,
                    client_version, client_init, server_init, req_pf, produced, fbu >>
WriteSuccess ==
    /\ pc = "write_success"
    /\ LET B == SecurityResult_write_to("Success")
       IN  \/ /\ out' = out \o Through(B, Len(B))
              /\ wdone' = 0
              /\ trace' = Append(trace, "Tx: SecurityResult=Success")
              /\ pc' = "read_client_init"
              /\ client_choice' = "none"
              /\ UNCHANGED err
           \/ /\ \E k \in WaitPoints(B) :
                    /\ k > wdone
                    /\ out' = out \o Through(B, k)
                    /\ wdone' = k
              /\ UNCHANGED << pc, err, trace, client_choice >>
           \/ /\ \E k \in wdone..(Len(B) - 1) : out' = out \o Through(B, k)
              /\ wdone' = 0
              /\ Fail(IoErr)
              /\ client_choice' = "none"
              /\ UNCHANGED trace
    /\ UNCHANGED outside
    /\ UNCHANGED rbuf
    /\ UNCHANGED << state, lock, args, inp, nsent, nread,
                    client_version, client_init, server_init, req_pf, produced, fbu >>

\* ClientInit::read_from(s).await? and the match on client_init.shared, whose
\* two arms are empty.
ReadClientInit(flag) ==
    /\ pc = "read_client_init"
    /\ nread' = nread + 1
    /\ client_init' = ClientInit_read_from(flag)
    /\ trace' = Append(trace, "Rx: ClientInit")
    /\ pc' = "lock_init"
    /\ UNCHANGED outside
    /\ UNCHANGED io_pos
    /\ UNCHANGED << state, lock, args, err, out, inp, nsent,
                    client_version, client_choice, server_init, req_pf, produced, fbu >>

\* let data = self.state.lock().await; ServerInit::new(...).
LockInitMutant ==
    /\ pc = "lock_init"
    /\ lock = "free"
    /\ lock' = "conn"
    /\ server_init' = ServerInit(state.width, state.height, args.name,
                                 state.output_format)
    /\ pc' = "write_server_init"
    /\ UNCHANGED outside
    /\ UNCHANGED io_pos
    /\ UNCHANGED << state, args, client_version, client_choice, err, out, inp, nsent, nread,
                    trace, client_init, req_pf, produced, fbu >>
LockInit ==
    /\ pc = "lock_init"
    /\ lock = "free"
    /\ lock' = "conn"
    /\ server_init' = ServerInit(state.width, state.height, args.name,
                                 state.input_format)
    /\ pc' = "write_server_init"
    /\ UNCHANGED outside
    /\ UNCHANGED io_pos
    /\ UNCHANGED << state, args, client_version, client_choice, err, out, inp, nsent, nread,
                    trace, client_init, req_pf, produced, fbu >>

\* server_init.write_to(s).await? with the guard `data` alive; it is dropped
\* when rfb_initialization returns, on either path, and the locals with it.
WriteServerInit ==
    /\ pc = "write_server_init"
    /\ LET B == ServerInit_write_to(server_init)
       IN  \/ /\ out' = out \o Through(B, Len(B))
              /\ wdone' = 0
              /\ trace' = Append(trace, "Tx: ServerInit")
              /\ pc' = "read_msg"
              /\ lock' = "free"
              /\ client_init' = None
              /\ server_init' = None
              /\ UNCHANGED err
           \/ /\ \E k \in WaitPoints(B) :
                    /\ k > wdone
                    /\ out' = out \o Through(B, k)
                    /\ wdone' = k
              /\ UNCHANGED << pc, err, trace, lock, client_init, server_init >>
           \/ /\ \E k \in wdone..(Len(B) - 1) : out' = out \o Through(B, k)
              /\ wdone' = 0
              /\ Fail(IoErr)
              /\ lock' = "free"
              /\ client_init' = None
              /\ server_init' = None
              /\ UNCHANGED trace
    /\ UNCHANGED outside
    /\ UNCHANGED rbuf
    /\ UNCHANGED << state, args, client_version, client_choice, inp, nsent, nread,
                    req_pf, produced, fbu >>

\* ------------------------------------------------------------ message loop
\* The test of process before fbu.write_to: transform the update?
ShouldTransformMutant(st) ==
    st.input_format # st.output_format
ShouldTransform(st) ==
    /\ st.input_format # st.output_format
    /\ is_rgb_888(st.input_format)
    /\ is_rgb_888(st.output_format)

\* The client sends a chunk.  Bytes sent before the handshake has ended would
\* wait in the stream just the same, so they are sent once it has.
ClientSend(chunk) ==
    /\ pc \in {"read_msg", "lock_spf", "call_updatef", "lock_fbu", "write_fbu"}
    /\ nsent < MaxMsgs
    /\ nsent' = nsent + 1
    /\ inp' = inp \o chunk
    /\ UNCHANGED outside
    /\ UNCHANGED io_pos
    /\ UNCHANGED << state, lock, pc, args, err, out, nread, trace, conn_locals >>

\* The match of process on the result r of the read: where the task goes.
DispatchMutantInput(r) ==
    CASE r.res = "ok" /\ r.msg.type = "SetPixelFormat" -> "lock_spf"
      [] r.res = "ok" /\ r.msg.type \in {"FramebufferUpdateRequest", "PointerEvent"}
            -> "call_updatef"
      [] r.res = "ok" -> "read_msg"
      [] r.res = "err" -> "closed"
      [] r.res = "panic" -> "panic"
DispatchMutant(r) ==
    CASE r.res = "ok" /\ r.msg.type = "SetPixelFormat" -> "lock_spf"
      [] r.res = "ok" /\ r.msg.type = "FramebufferUpdateRequest" -> "call_updatef"
      [] r.res = "ok" -> "read_msg"
      [] r.res = "err" -> "read_msg"
      [] r.res = "panic" -> "panic"
Dispatch(r) ==
    CASE r.res = "ok" /\ r.msg.type = "SetPixelFormat" -> "lock_spf"
      [] r.res = "ok" /\ r.msg.type = "FramebufferUpdateRequest" -> "call_updatef"
      [] r.res = "ok" -> "read_msg"
      [] r.res = "err" -> "closed"
      [] r.res = "panic" -> "panic"

\* ClientMessage::read_from(s).await and the match on its result, up to the
\* next suspension.
ReadMsg ==
    /\ pc = "read_msg"
    /\ LET r == ClientMessage_read_from(rbuf \o inp)
       IN  /\ r.res # "short"
           /\ inp' = Drop(inp, r.used - Len(rbuf))
           /\ nread' = nread + r.used - Len(rbuf)
           /\ rbuf' = <<>>
           /\ pc' = Dispatch(r)
           /\ CASE r.res = "ok" ->
                    /\ trace' = Append(trace, "Rx: " \o r.msg.type)
                    /\ req_pf' = IF r.msg.type = "SetPixelFormat" THEN r.msg.pf ELSE None
                [] r.res = "err" ->
                    /\ trace' = Append(trace, "error reading client message")
                    /\ UNCHANGED req_pf
                [] r.res = "panic" ->
                    /\ UNCHANGED << trace, req_pf >>
    /\ UNCHANGED outside
    /\ UNCHANGED wdone
    /\ UNCHANGED << state, lock, args, client_version, client_choice, err, out, nsent,
                    client_init, server_init, produced, fbu >>

\* Part of a message is there: the reads of read_from take it and the task
\* waits, inside read_from, for the rest.
ReadMsgPart ==
    /\ pc = "read_msg"
    /\ inp # <<>>
    /\ ClientMessage_read_from(rbuf \o inp).res = "short"
    /\ rbuf' = rbuf \o inp
    /\ inp' = <<>>
    /\ nread' = nread + Len(inp)
    /\ UNCHANGED outside
    /\ UNCHANGED wdone
    /\ UNCHANGED << state, lock, pc, args, err, out, nsent, trace, conn_locals >>

\* The read fails because the stream ended inside or before a message.
ReadMsgEof ==
    /\ pc = "read_msg"
    /\ ClientMessage_read_from(rbuf \o inp).res = "short"
    /\ inp' = <<>>
    /\ rbuf' = <<>>
    /\ nread' = nread + Len(inp)
    /\ trace' = Append(trace, "error reading client message")
    /\ pc' = "closed"
    /\ UNCHANGED outside
    /\ UNCHANGED wdone
    /\ UNCHANGED << state, lock, args, err, out, nsent, conn_locals >>

\* SetPixelFormat(pf): lock, state.output_format = pf, drop(state).
HandleSetPixelFormatMutantResend ==
    /\ pc = "lock_spf"
    /\ lock = "free"
    /\ state' = [state EXCEPT !.output_format = req_pf]
    /\ req_pf' = None
    /\ pc' = "read_msg"
    /\ out' = out \o ServerInit_write_to(ServerInit(state.width, state.height,
                                                     args.name, req_pf))
    /\ UNCHANGED outside
    /\ UNCHANGED io_pos
    /\ UNCHANGED << lock, args, client_version, client_choice, err, inp, nsent, nread,
                    trace, client_init, server_init, produced, fbu >>
HandleSetPixelFormatMutant ==
    /\ pc = "lock_spf"
    /\ lock = "free"
    /\ state' = [state EXCEPT !.input_format = req_pf]
    /\ req_pf' = None
    /\ pc' = "read_msg"
    /\ UNCHANGED outside
    /\ UNCHANGED io_pos
    /\ UNCHANGED << lock, args, client_version, client_choice, err, out, inp, nsent, nread,
                    trace, client_init, server_init, produced, fbu >>
HandleSetPixelFormat ==
    /\ pc = "lock_spf"
    /\ lock = "free"
    /\ state' = [state EXCEPT !.output_format = req_pf]
    /\ req_pf' = None
    /\ pc' = "read_msg"
    /\ UNCHANGED outside
    /\ UNCHANGED io_pos
    /\ UNCHANGED << lock, args, client_version, client_choice, err, out, inp, nsent, nread,
                    trace, client_init, server_init, produced, fbu >>

\* let mut fbu = updatef().await.
CallUpdatef(u) ==
    /\ pc = "call_updatef"
    /\ produced' = u
    /\ fbu' = u
    /\ trace' = Append(trace, "updatef")
    /\ pc' = "lock_fbu"
    /\ UNCHANGED outside
    /\ UNCHANGED io_pos
    /\ UNCHANGED << state, lock, args, client_version, client_choice, err, out, inp, nsent,
                    nread, client_init, server_init, req_pf >>

\* let state = self.state.lock().await and the transform, up to the write.
LockFbu ==
    /\ pc = "lock_fbu"
    /\ lock = "free"
    /\ lock' = "conn"
    /\ fbu' = IF ShouldTransform(state)
              THEN FramebufferUpdate_transform(fbu, state.input_format,
                                               state.output_format)
              ELSE fbu
    /\ pc' = "write_fbu"
    /\ UNCHANGED outside
    /\ UNCHANGED io_pos
    /\ UNCHANGED << state, args, client_version, client_choice, err, out, inp, nsent, nread,
                    trace, client_init, server_init, req_pf, produced >>

\* fbu.write_to(s).await with the guard `state` alive; the guard is dropped at
\* the end of the match arm, or by the return on a failed write.
WriteFbuMutantKeepsLock ==
    /\ pc = "write_fbu"
    /\ LET B == FramebufferUpdate_write_to(fbu)
       IN  \/ /\ out' = out \o Through(B, Len(B))
              /\ wdone' = 0
              /\ trace' = Append(trace, "Tx: FramebufferUpdate")
              /\ pc' = "read_msg"
              /\ lock' = "free"
              /\ fbu' = <<>>
              /\ produced' = <<>>
              /\ UNCHANGED err
           \/ /\ \E k \in WaitPoints(B) :
                    /\ k > wdone
                    /\ out' = out \o Through(B, k)
                    /\ wdone' = k
              /\ UNCHANGED << pc, err, trace, lock, fbu, produced >>
           \/ /\ \E k \in wdone..(Len(B) - 1) : out' = out \o Through(B, k)
              /\ wdone' = 0
              /\ trace' = Append(trace, "could not write FramebufferUpdateRequest")
              /\ pc' = "closed"
              /\ UNCHANGED lock
              /\ fbu' = <<>>
              /\ produced' = <<>>
              /\ UNCHANGED err
    /\ UNCHANGED outside
    /\ UNCHANGED rbuf
    /\ UNCHANGED << state, args, client_version, client_choice, inp, nsent, nread,
                    client_init, server_init, req_pf >>
WriteFbuMutant ==
    /\ pc = "write_fbu"
    /\ LET B == FramebufferUpdate_write_to(fbu)
       IN  \/ /\ out' = out \o Through(B, Len(B))
              /\ wdone' = 0
              /\ trace' = Append(trace, "Tx: FramebufferUpdate")
              /\ pc' = "read_msg"
              /\ lock' = "free"
              /\ fbu' = <<>>
              /\ produced' = <<>>
              /\ UNCHANGED err
           \/ /\ \E k \in WaitPoints(B) :
                    /\ k > wdone
                    /\ out' = out \o Through(B, k)
                    /\ wdone' = k
              /\ UNCHANGED << pc, err, trace, lock, fbu, produced >>
           \/ /\ \E k \in wdone..(Len(B) - 1) : out' = out \o Through(B, k)
              /\ wdone' = 0
              /\ trace' = Append(trace, "could not write FramebufferUpdateRequest")
              /\ pc' = "read_msg"
              /\ lock' = "free"
              /\ fbu' = <<>>
              /\ produced' = <<>>
              /\ UNCHANGED err
    /\ UNCHANGED outside
    /\ UNCHANGED rbuf
    /\ UNCHANGED << state, args, client_version, client_choice, inp, nsent, nread,
                    client_init, server_init, req_pf >>
WriteFbu ==
    /\ pc = "write_fbu"
    /\ LET B == FramebufferUpdate_write_to(fbu)
       IN  \/ /\ out' = out \o Through(B, Len(B))
              /\ wdone' = 0
              /\ trace' = Append(trace, "Tx: FramebufferUpdate")
              /\ pc' = "read_msg"
              /\ lock' = "free"
              /\ fbu' = <<>>
              /\ produced' = <<>>
              /\ UNCHANGED err
           \/ /\ \E k \in WaitPoints(B) :
                    /\ k > wdone
                    /\ out' = out \o Through(B, k)
                    /\ wdone' = k
              /\ UNCHANGED << pc, err, trace, lock, fbu, produced >>
           \/ /\ \E k \in wdone..(Len(B) - 1) : out' = out \o Through(B, k)
              /\ wdone' = 0
              /\ trace' = Append(trace, "could not write FramebufferUpdateRequest")
              /\ pc' = "closed"
              /\ lock' = "free"
              /\ fbu' = <<>>
              /\ produced' = <<>>
              /\ UNCHANGED err
    /\ UNCHANGED outside
    /\ UNCHANGED rbuf
    /\ UNCHANGED << state, args, client_version, client_choice, inp, nsent, nread,
                    client_init, server_init, req_pf >>

\* ---------------------------------------------------------- specifications
Setters ==
    \/ \E f \in InputFormats : set_pixel_format(f)
    \/ \E r \in Resolutions : set_resolution(r.width, r.height)

Handshake ==
    \/ WriteVersion
    \/ \E buf \in ClientVersionInputs : ReadVersion(buf)
    \/ \E buf \in ClientVersionInputs, k \in 1..11 : ReadVersionPart(buf, k)
    \/ ReadEof
    \/ WriteSecTypes
    \/ \E t \in ChoiceBytes : ReadChoice(t)
    \/ WriteFailure
    \/ WriteSuccess
    \/ \E flag \in ClientInitBytes : ReadClientInit(flag)
    \/ LockInit
    \/ WriteServerInit

MessageLoop ==
    \/ \E chunk \in ClientChunks : ClientSend(chunk)
    \/ ReadMsg
    \/ ReadMsgPart
    \/ ReadMsgEof
    \/ HandleSetPixelFormat
    \/ \E u \in Updates : CallUpdatef(u)
    \/ LockFbu
    \/ WriteFbu

\* One connection served the way the examples call the engine.
Next ==
    \/ \E a \in ExampleArgs : Initialize(a)
    \/ Handshake
    \/ MessageLoop
    \/ Setters

Spec == Init /\ [][Next]_vars

\* The handshake alone, for every argument list a caller can pass.
NextHandshake ==
    \/ \E a \in AllArgs : Initialize(a)
    \/ Handshake
    \/ Setters

SpecHandshake == Init /\ [][NextHandshake]_vars

\* The embedding program calls, once, a function of the library on a value it
\* built.
\* The pixel formats: every combination of the fields' values below, and a
\* colour-map format.
PixelFormatInputs ==
    { new_colorformat(bpp, depth, be, rs, rm, gs, gm, bs, bm) :
        bpp \in {16, 32}, depth \in {16, 24, 32}, be \in BOOLEAN,
        rs \in {0, 4, 16, 32}, gs \in {3, 8, 40}, bs \in {0, 16, 24},
        rm \in {255, 63}, gm \in {255, 127}, bm \in {255, 256} }
      \cup { [bits_per_pixel |-> 32, depth |-> depth, big_endian |-> FALSE,
              color_spec |-> ColorMap] : depth \in {8, 24} }
Call_is_rgb_888(pf) ==
    /\ call = None
    /\ call' = [fn |-> "is_rgb_888", arg |-> pf]
    /\ ret' = is_rgb_888(pf)
    /\ UNCHANGED << state, lock, pc, args, err, out, inp, nsent, nread, trace,
                    conn_locals, io_pos,
                    accept, conns >>

\* pf.write_to(stream), and PixelFormat::read_from on the bytes it wrote.
Call_PixelFormat_write_read(pf) ==
    /\ call = None
    /\ pf.color_spec.kind = "ColorFormat"
    /\ call' = [fn |-> "PixelFormat::write_to, read_from", arg |-> pf]
    /\ ret' = LET bytes == PixelFormat_write_to(pf)
              IN  [bytes |-> bytes, read |-> PixelFormat_read_from(bytes)]
    /\ UNCHANGED << state, lock, pc, args, err, out, inp, nsent, nread, trace,
                    conn_locals, io_pos,
                    accept, conns >>

\* FramebufferUpdate::new on n rectangles (at x = 1, 2, ... so that they
\* differ) and write_to: the header written, the number of rectangles the
\* loop writes after it and, for the short updates, every byte.
RectCounts == {0, 1, 2, 3, 65535, 65536, 65537}
\* Largest update whose bytes are computed in full.
MaxBytesKept == 3
RectangleAt(i) == Rectangle(i % 65536, 0, 1, 1, RawEncoding(Pixel))
Call_FramebufferUpdate_write_to(n) ==
    /\ call = None
    /\ call' = [fn |-> "FramebufferUpdate::write_to", arg |-> n]
    /\ ret' = LET rectangles == [i \in 1..n |-> RectangleAt(i)]
              IN  [header |-> <<0, 0>> \o U16(FramebufferUpdate_n_rect(rectangles)),
                   rectangles_written |-> Len(rectangles),
                   bytes |-> IF n <= MaxBytesKept
                             THEN FramebufferUpdate_write_to(rectangles) ELSE <<>>]
    /\ UNCHANGED << state, lock, pc, args, err, out, inp, nsent, nread, trace,
                    conn_locals, io_pos,
                    accept, conns >>

\* ClientMessage::read_from on a stream that holds one message of a fixed
\* layout and then the first bytes of a next one.
KeyEventInputs ==
    { <<4, flag, p, p>> \o U32(k) : flag \in {0, 1, 255}, p \in {0, 7},
                                    k \in {65, 65293, 16909060} }
PointerEventInputs ==
    { <<5, mask>> \o U16(x) \o U16(y) : mask \in {0, 1, 255}, x \in {0, 258}, y \in {3} }
FramebufferUpdateRequestInputs ==
    { <<3, inc>> \o U16(x) \o U16(0) \o U16(w) \o U16(768) :
        inc \in {0, 1}, x \in {0, 513}, w \in {1, 1024} }
SetEncodingsInputs ==
    { ClientSetEncodings(<<>>), ClientSetEncodings(<<0>>), ClientSetEncodings(<<0, 0>>),
      <<2, 9>> \o U16(1) \o I32(0) }
SetPixelFormatInputs ==
    { <<0, p, p, p>> \o PixelFormat_write_to(pf) : p \in {0, 7}, pf \in ClientFormats }
FixedLayoutInputs ==
    { m \o next : m \in KeyEventInputs \cup PointerEventInputs
                        \cup FramebufferUpdateRequestInputs
                        \cup SetEncodingsInputs \cup SetPixelFormatInputs,
                  next \in { <<>>, <<3, 0>> } }
Call_ClientMessage_read_from(s) ==
    /\ call = None
    /\ call' = [fn |-> "ClientMessage::read_from", arg |-> s]
    /\ ret' = ClientMessage_read_from(s)
    /\ UNCHANGED << state, lock, pc, args, err, out, inp, nsent, nread, trace,
                    conn_locals, io_pos,
                    accept, conns >>

\* FramebufferUpdate::transform on updates of 0..MaxTransformRects rectangles
\* that differ in position, dimensions and payload; self is borrowed shared
\* (&self), so it is after the call what it was before.
MaxTransformRects == 3
TransformRects ==
    { Rectangle(0, 0, 1, 1, RawEncoding(<<1, 2, 3, 4>>)),
      Rectangle(5, 6, 2, 1, RawEncoding(<<1, 2, 3, 4, 5, 6, 7, 8>>)),
      Rectangle(258, 3, 1, 1, RawEncoding(Pixel)) }
TransformUpdates == UNION { [1..n -> TransformRects] : n \in 0..MaxTransformRects }
TransformFormats == {PF_RGBx, PF_BGRx}
Call_FramebufferUpdate_transform(u, ipf, opf) ==
    /\ call = None
    /\ call' = [fn |-> "FramebufferUpdate::transform",
                arg |-> [self |-> u, input_pf |-> ipf, output_pf |-> opf]]
    /\ ret' = [self |-> u, result |-> FramebufferUpdate_transform(u, ipf, opf)]
    /\ UNCHANGED << state, lock, pc, args, err, out, inp, nsent, nread, trace,
                    conn_locals, io_pos,
                    accept, conns >>

NextCalls ==
    \/ \E u \in TransformUpdates, ipf \in TransformFormats, opf \in TransformFormats :
          Call_FramebufferUpdate_transform(u, ipf, opf)
    \/ \E s \in FixedLayoutInputs : Call_ClientMessage_read_from(s)
    \/ \E n \in RectCounts : Call_FramebufferUpdate_write_to(n)
    \/ \E pf \in PixelFormatInputs : Call_is_rgb_888(pf)
    \/ \E pf \in PixelFormatInputs : Call_PixelFormat_write_read(pf)

SpecCalls == Init /\ [][NextCalls]_vars

\* ------------------------------------------------------ the example server
\* main of examples/server.rs with MaxConns clients: the accept loop, which
\* runs Server::new and initialize itself, and the task it spawns for process
\* once initialize has returned.  A step ends at each await of the handshake
\* and of the message loop; what is decided in a step is decided as in the
\* one-connection model above, whose byte streams are not repeated here.
Conns == 1..MaxConns
ExampleVersion == "Rfb38"
ExampleSecTypes == <<"None", "VncAuthentication">>
ExampleWidth == 1024
ExampleHeight == 768
\* The messages the clients of the example send: decoded whole.
ExampleChunks ==
    {ClientSetPixelFormat(pf) : pf \in ClientFormats}
        \cup {ClientSetPixelFormatColorMap}
        \cup {ClientFramebufferUpdateRequest, ClientKeyEvent, <<7>>}
one_conn == << state, lock, pc, args, err, out, inp, nsent, nread, trace, conn_locals,
               io_pos, call, ret >>

\* BITS_PER_COLOR of pixel_formats::rgb_888.
rgb_888_BITS_PER_COLOR == 8
\* shared::order_to_shift: assert!(order <= 3) panics on a larger order.
order_to_shift(order) ==
    IF order <= 3 THEN (3 - order) * rgb_888_BITS_PER_COLOR ELSE "panic"
\* validate_order of the example.
validate_order(r, g, b) ==
    /\ ~(r > 3 \/ g > 3 \/ b > 3)
    /\ ~(r = g \/ r = b \/ g = b)
\* The values of --red-order, --green-order, --blue-order the example is
\* started with: the defaults 0, 1, 2, two other orders, and two that
\* validate_order rejects.
ExampleOrders == { <<0, 1, 2>>, <<1, 2, 3>>, <<2, 1, 0>>, <<0, 0, 1>>, <<4, 1, 2>> }

\* The values of --image: the two that generate_pixels reads from a file and
\* decodes, and the five it fills in itself.
FileImages == {"Oxide", "TestTubes"}
ExampleImages == FileImages \cup {"Red", "Green", "Blue", "White", "Black"}

\* main up to the accept loop: the arguments are validated (an Err returns
\* from main), the pixel format is built from them, and the listener is
\* bound: TcpListener::bind(..).await.unwrap() panics when it cannot.
Main(o, be, img) ==
    /\ accept.pc = "start"
    /\ IF validate_order(o[1], o[2], o[3])
       THEN \E p \in {"accept", "panicked"} :
              accept' = [pc |-> p, conn |-> 0, image |-> img,
                         pf |-> new_colorformat(rgb_888_BITS_PER_PIXEL, rgb_888_DEPTH, be,
                                                order_to_shift(o[1]), rgb_888_MAX_VALUE,
                                                order_to_shift(o[2]), rgb_888_MAX_VALUE,
                                                order_to_shift(o[3]), rgb_888_MAX_VALUE)]
       ELSE accept' = [accept EXCEPT !.pc = "exited", !.image = img]
    /\ UNCHANGED << conns, one_conn >>

\* An unwrap in main's accept loop meets an Err: main panics, the runtime
\* goes down with it and takes every spawned task that is still running
\* along.
MainPanics ==
    /\ accept' = [accept EXCEPT !.pc = "panicked", !.conn = 0]
    /\ conns' = [d \in Conns |->
                    IF conns[d].pc \in {"pending", "panic"} THEN conns[d]
                    ELSE [conns[d] EXCEPT !.pc = "closed"]]

\* initialize(...).await.unwrap() on an Err.
InitFailed(c) == MainPanics

\* main is inside initialize for client c, which is at p.
Initializing(c, p) ==
    /\ accept.pc = "initialize"
    /\ accept.conn = c
    /\ conns[c].pc = p
\* initialize of client c goes on to p.
InitGoes(c, p) ==
    /\ conns' = [conns EXCEPT ![c].pc = p]
    /\ UNCHANGED accept

\* listener.accept().await returns client c; Server::new; initialize is
\* called and runs to its first await, the write of the version.
Accept(c) ==
    /\ accept.pc = "accept"
    /\ conns[c].pc = "pending"
    /\ accept' = [accept EXCEPT !.pc = "initialize", !.conn = c]
    /\ conns' = [conns EXCEPT ![c] =
                    [pc |-> "write_version",
                     state |-> Server_new(ExampleWidth, ExampleHeight, accept.pf),
                     served |-> FALSE]]
    /\ UNCHANGED one_conn

\* listener.accept().await.unwrap() on an Err (no file descriptor left, for
\* one).
AcceptFails ==
    /\ accept.pc = "accept"
    /\ MainPanics
    /\ UNCHANGED one_conn

\* version.write_to(s).await? of client c's handshake.
InitWriteVersion(c) ==
    /\ Initializing(c, "write_version")
    /\ \/ InitGoes(c, "read_version")
       \/ InitFailed(c)
    /\ UNCHANGED one_conn

\* The client's version arrives and is compared.
InitReadVersion(c, buf) ==
    /\ Initializing(c, "read_version")
    /\ LET r == ProtoVersion_read_from(buf)
       IN  IF r.ok /\ ~VersionLt(r.v, ExampleVersion)
           THEN InitGoes(c, "write_sec_types")
           ELSE InitFailed(c)
    /\ UNCHANGED one_conn

\* supported_types.write_to(s).await?
InitWriteSecTypes(c) ==
    /\ Initializing(c, "write_sec_types")
    /\ \/ InitGoes(c, "read_choice")
       \/ InitFailed(c)
    /\ UNCHANGED one_conn

\* The client's choice arrives and is tested.  main offers both types that
\* SecurityType::read_from can return, so the test never fails here and the
\* SecurityResult::Failure branch of rfb_handshake is not taken.
InitReadChoice(c, t) ==
    /\ Initializing(c, "read_choice")
    /\ LET r == SecurityType_read_from(t)
       IN  IF r.ok /\ Contains(ExampleSecTypes, r.t)
           THEN InitGoes(c, "write_success")
           ELSE InitFailed(c)
    /\ UNCHANGED one_conn

\* res.write_to(s).await? for SecurityResult::Success.
InitWriteSuccess(c) ==
    /\ Initializing(c, "write_success")
    /\ \/ InitGoes(c, "read_client_init")
       \/ InitFailed(c)
    /\ UNCHANGED one_conn

\* ClientInit arrives; the lock of the connection's own Server, which nobody
\* else holds, is taken and ServerInit built.
InitReadClientInit(c, flag) ==
    /\ Initializing(c, "read_client_init")
    /\ InitGoes(c, "write_server_init")
    /\ UNCHANGED one_conn

\* server_init.write_to(s).await?; on Ok initialize returns, main spawns the
\* task that runs process and goes back to listener.accept().
InitWriteServerInit(c) ==
    /\ Initializing(c, "write_server_init")
    /\ \/ /\ conns' = [conns EXCEPT ![c].pc = "read_msg"]
          /\ accept' = [accept EXCEPT !.pc = "accept", !.conn = 0]
       \/ InitFailed(c)
    /\ UNCHANGED one_conn

\* A read of the handshake fails.
InitIoError(c) ==
    /\ accept.pc = "initialize"
    /\ accept.conn = c
    /\ conns[c].pc \in {"read_version", "read_choice", "read_client_init"}
    /\ InitFailed(c)
    /\ UNCHANGED one_conn

\* The spawned task of client c reads a message: SetPixelFormat is handled
\* on the spot (the lock of its own Server is free), FramebufferUpdateRequest
\* takes the task to the producer, an error ends it.
ProcessMsg(c, chunk) ==
    /\ accept.pc # "panicked"
    /\ conns[c].pc = "read_msg"
    /\ LET r == ClientMessage_read_from(chunk)
           next == Dispatch(r)
       IN  conns' = [conns EXCEPT ![c] =
              CASE next = "lock_spf" ->
                      [@ EXCEPT !.state = [@ EXCEPT !.output_format = r.msg.pf]]
                [] next = "read_msg" -> @
                [] OTHER -> [@ EXCEPT !.pc = next]]
    /\ UNCHANGED << accept, one_conn >>

\* be_clone.generate(WIDTH, HEIGHT).await returns and the lock is taken; or,
\* for an image read from a file, generate_image panics (the file cannot be
\* opened or decoded, or does not fit WIDTH x HEIGHT): the task ends there,
\* nothing is written, main and the other tasks go on.
ProcessUpdatef(c) ==
    /\ accept.pc # "panicked"
    /\ conns[c].pc = "call_updatef"
    /\ \/ conns' = [conns EXCEPT ![c].pc = "write_fbu"]
       \/ /\ accept.image \in FileImages
          /\ conns' = [conns EXCEPT ![c].pc = "panic"]
    /\ UNCHANGED << accept, one_conn >>

\* fbu.write_to(s).await: written, or the task returns.
ProcessWriteFbu(c) ==
    /\ accept.pc # "panicked"
    /\ conns[c].pc = "write_fbu"
    /\ \/ conns' = [conns EXCEPT ![c].pc = "read_msg", ![c].served = TRUE]
       \/ conns' = [conns EXCEPT ![c].pc = "closed"]
    /\ UNCHANGED << accept, one_conn >>

\* The read of a message fails.
ProcessIoError(c) ==
    /\ accept.pc # "panicked"
    /\ conns[c].pc = "read_msg"
    /\ conns' = [conns EXCEPT ![c].pc = "closed"]
    /\ UNCHANGED << accept, one_conn >>

NextExample ==
    \/ \E o \in ExampleOrders, be \in BOOLEAN, img \in ExampleImages : Main(o, be, img)
    \/ \E c \in Conns : Accept(c)
    \/ AcceptFails
    \/ \E c \in Conns : InitWriteVersion(c)
    \/ \E c \in Conns, buf \in ClientVersionInputs : InitReadVersion(c, buf)
    \/ \E c \in Conns : InitWriteSecTypes(c)
    \/ \E c \in Conns, t \in ChoiceBytes : InitReadChoice(c, t)
    \/ \E c \in Conns : InitWriteSuccess(c)
    \/ \E c \in Conns, flag \in ClientInitBytes : InitReadClientInit(c, flag)
    \/ \E c \in Conns : InitWriteServerInit(c)
    \/ \E c \in Conns : InitIoError(c)
    \/ \E c \in Conns, chunk \in ExampleChunks : ProcessMsg(c, chunk)
    \/ \E c \in Conns : ProcessUpdatef(c)
    \/ \E c \in Conns : ProcessWriteFbu(c)
    \/ \E c \in Conns : ProcessIoError(c)

SpecExample == Init /\ [][NextExample]_vars

\* ------------------------------------------------------------------ claims
\* What the claims call things, said without the model's operators.
\* A step of the connection's task (the setters and the client move neither
\* pc nor trace).
TaskStep == pc' # pc \/ trace' # trace
\* The bytes the read of the next message decodes: what it has consumed of
\* them already and what is in the stream.
Unread == rbuf \o inp
\* What the write in progress has put on the stream when this step is done:
\* the bytes of earlier steps of the same write and those of this one.
WrittenNow == SubSeq(out', Len(out) - wdone + 1, Len(out'))
LoopPcs == {"read_msg", "lock_spf", "call_updatef", "lock_fbu", "write_fbu"}
\* The message type tags of the specification.
KnownTags == {0, 2, 3, 4, 5, 6}
\* The wire codes of the specification: 1 = None, 2 = VncAuthentication.
WireCode(t) == IF t = "None" THEN 1 ELSE 2
WireCodeOffered(b) ==
    \E i \in 1..Len(args.sec_types) : WireCode(args.sec_types[i]) = b
\* a is a lower version than b.
Lower(a, b) ==
    << a, b >> \in { <<"Rfb33", "Rfb37">>, <<"Rfb33", "Rfb38">>, <<"Rfb37", "Rfb38">> }

\* C1: whenever the server reads, as the client's choice, a byte that is not
\* the wire code of an offered security type, it goes on to write
\* SecurityResult::Failure (it does not return its error first).
C1_FailureWrittenForEveryBadChoice ==
    [][\A t \in ChoiceBytes :
          (ReadChoice(t) /\ ~WireCodeOffered(t)) => pc' = "write_failure"]_vars

\* C2: once the offered types are written, the stream holds a count byte and
\* one byte per type, and SecurityType::read_from maps each of those bytes back
\* to the type it was written for.
C2_OfferedTypesUseReadableCodes ==
    pc = "read_choice" =>
        /\ Len(out) = 12 + 1 + Len(args.sec_types)
        /\ out[13] = Len(args.sec_types)
        /\ \A i \in 1..Len(args.sec_types) :
              /\ SecurityType_read_from(out[13 + i]).ok
              /\ SecurityType_read_from(out[13 + i]).t = args.sec_types[i]
              /\ out[13 + i] = WireCode(args.sec_types[i])

\* C3: a client version lower than the server's makes the handshake fail with
\* the server's 12-byte version string as the only bytes written and the
\* client's 12-byte version string as the only bytes read.
C3_OldClientGetsVersionOnly ==
    (client_version # "none" /\ Lower(client_version, args.version)) =>
        /\ pc = "hs_failed"
        /\ err.kind = "msg"
        /\ out = VersionBytes(args.version)
        /\ nread = 12
        /\ trace = << "Tx: ProtoVersion", "Rx: ClientVersion" >>
C3_Witness ==
    /\ pc = "hs_failed"
    /\ client_version = "Rfb33"
    /\ args.version = "Rfb38"
    /\ out = VersionBytes("Rfb38")

\* initialize returned the error of server.rs:93-100.
RejectedForVersion ==
    pc = "hs_failed" /\ err = MsgErr("unsupported client version")

\* C4: with Rfb33 < Rfb37 < Rfb38 as the order, a handshake that has read
\* the client's version (any of the three, against any of the three) is
\* rejected for its version exactly when the client's version is lower than
\* the server's; otherwise it goes on to the security step.
C4_VersionStepPassesIffNotLower ==
    client_version # "none" =>
        /\ RejectedForVersion <=> Lower(client_version, args.version)
        /\ ~RejectedForVersion =>
              \/ pc = "write_sec_types"
              \/ Len(trace) > 2
              \/ pc = "hs_failed" /\ err = IoErr
C4_Witness ==
    /\ client_version = "Rfb38"
    /\ args.version = "Rfb33"
    /\ pc = "read_choice"

\* The completed reads and writes of a successful handshake, in order.
SuccessOrder ==
    << "Tx: ProtoVersion", "Rx: ClientVersion", "Tx: SecurityTypes",
       "Rx: SecurityType Choice", "Tx: SecurityResult=Success",
       "Rx: ClientInit", "Tx: ServerInit" >>
HandshakeEvents ==
    { SuccessOrder[i] : i \in 1..7 } \cup { "Tx: SecurityResult=Failure" }

\* C5: the reads and writes of a handshake happen in the one order write
\* version, read version, write security types, read choice, write Success,
\* read ClientInit, write ServerInit (or write Failure in fifth place and
\* stop); nothing of the handshake happens after the seventh; and when
\* ServerInit has been written, Success was written before it, as 4 zero
\* bytes right after the security types.
C5_HandshakeOrder ==
    /\ \A i \in 1..Len(trace) :
          \/ i <= 7 /\ trace[i] = SuccessOrder[i]
          \/ i = 5 /\ trace[i] = "Tx: SecurityResult=Failure" /\ Len(trace) = 5
          \/ i > 7 /\ trace[i] \notin HandshakeEvents
    /\ (\E i \in 1..Len(trace) : trace[i] = "Tx: ServerInit") =>
          /\ SubSeq(trace, 1, 7) = SuccessOrder
          /\ SubSeq(out, 14 + Len(args.sec_types), 17 + Len(args.sec_types))
                = <<0, 0, 0, 0>>
          /\ Len(out) >= 17 + Len(args.sec_types) + 24 + Len(args.name)
C5_Witness ==
    /\ pc = "read_msg"
    /\ trace = SuccessOrder
    /\ client_version = "Rfb38"
    /\ args.version = "Rfb38"

\* C6: the update the loop is writing is the producer's update transformed
\* when the session's two formats differ and both are RGB888, and the
\* producer's update itself in every other case.
C6_TransformIffDifferentAndBothRgb888 ==
    pc = "write_fbu" =>
        fbu = IF /\ state.input_format # state.output_format
                 /\ is_rgb_888(state.input_format)
                 /\ is_rgb_888(state.output_format)
              THEN FramebufferUpdate_transform(produced, state.input_format,
                                               state.output_format)
              ELSE produced
C6_Witness ==
    /\ pc = "write_fbu"
    /\ state.input_format = PF_RGBx
    /\ state.output_format = PF_BGRx
    /\ produced # <<>>
    /\ fbu # produced

\* C7: handling a decoded SetPixelFormat(pf) sets output_format to the pf
\* the message carried and nothing else of the session state; no other step
\* of the message loop changes the session state, and output_format changes
\* at no other step at all.
C7_OnlySetPixelFormatChangesOutputFormat ==
    [][/\ (pc = "read_msg" /\ pc' = "lock_spf") =>
            /\ req_pf' = PixelFormat_read_from(Drop(inp, 4)).pf
            /\ state' = state
       /\ (pc = "lock_spf" /\ TaskStep) =>
            /\ state'.output_format = req_pf
            /\ state'.input_format = state.input_format
            /\ state'.width = state.width
            /\ state'.height = state.height
       /\ (pc \in LoopPcs \ {"lock_spf"} /\ TaskStep) => state' = state
       /\ state'.output_format # state.output_format => pc = "lock_spf"]_vars
C7_Witness ==
    /\ pc = "read_msg"
    /\ state.output_format = PF_BGRx
    /\ state.input_format = PF_565
    /\ trace[Len(trace)] = "Rx: SetPixelFormat"

\* C8: while a write of ServerInit or of a FramebufferUpdate is in progress
\* the session-state lock is free.
C8_LockFreeDuringWrites ==
    pc \in {"write_server_init", "write_fbu"} => lock = "free"

\* C9: when the stream holds a whole ClientCutText message whose length
\* field is n, the decode consumes 8 + n bytes and returns the n bytes after
\* the length as the text.
C9_CutTextConsumesItsText ==
    (/\ pc = "read_msg"
     /\ Len(Unread) >= 8
     /\ Unread[1] = 6
     /\ Len(Unread) >= 8 + BE32(Unread, 5)) =>
        LET n == BE32(Unread, 5)
            r == ClientMessage_read_from(Unread)
        IN  /\ r.res = "ok"
            /\ r.used = 8 + n
            /\ r.msg.text = SubSeq(Unread, 9, 8 + n)

\* C10: no byte outside {0, 2, 3, 4, 5, 6} decodes as a client message, and
\* when the loop reads such a byte as a type tag it ends: the task is
\* closed, having written nothing and changed nothing of the session state,
\* and a closed task never writes again.
C10_UnknownTagEndsTheLoop ==
    /\ \A t \in Byte \ KnownTags : ClientMessage_read_from(<<t>>).res = "err"
    /\ [][/\ (/\ pc = "read_msg"
              /\ Unread # <<>>
              /\ Unread[1] \notin KnownTags
              /\ TaskStep) =>
                /\ pc' = "closed"
                /\ out' = out
                /\ state' = state
                /\ lock' = lock
          /\ pc = "closed" => (pc' = "closed" /\ out' = out /\ nread' = nread)]_vars
C10_Witness ==
    /\ pc = "closed"
    /\ trace = SuccessOrder \o << "error reading client message" >>
    /\ nread = 12 + 1 + 1 + 1
    /\ nsent = 1

\* C11: when the loop reads a SetPixelFormat whose true-colour flag byte (the
\* eighth byte of the message) is 0, the decode returns an error and the task
\* closes as for any protocol error, with the session state unchanged: the
\* task does not panic.
C11_ColorMapIsAProtocolError ==
    [][(/\ pc = "read_msg"
        /\ Len(Unread) >= 8
        /\ Unread[1] = 0
        /\ Unread[8] = 0
        /\ TaskStep) =>
          /\ pc' = "closed"
          /\ trace' = Append(trace, "error reading client message")
          /\ state' = state]_vars

\* C12 as stated: is_rgb_888(pf) is true exactly when bits_per_pixel is 32,
\* the three maxima are 255 and the three shifts are multiples of 8, and
\* false for a colour-map format, whatever the depth.
C12_Rgb888IgnoresDepth ==
    (call # None /\ call.fn = "is_rgb_888") =>
        LET pf == call.arg
        IN  ret <=> /\ pf.color_spec.kind = "ColorFormat"
                    /\ pf.bits_per_pixel = 32
                    /\ pf.color_spec.red_max = 255
                    /\ pf.color_spec.green_max = 255
                    /\ pf.color_spec.blue_max = 255
                    /\ pf.color_spec.red_shift % 8 = 0
                    /\ pf.color_spec.green_shift % 8 = 0
                    /\ pf.color_spec.blue_shift % 8 = 0
\* C12 amended: is_rgb_888(pf) is true exactly when bits_per_pixel is 32, the
\* depth is 24, the three maxima are 255 and the three shifts are multiples
\* of 8; it is false for a colour-map format.
C12_Rgb888IffDepth24AndChannels ==
    (call # None /\ call.fn = "is_rgb_888") =>
        LET pf == call.arg
        IN  ret <=> /\ pf.color_spec.kind = "ColorFormat"
                    /\ pf.bits_per_pixel = 32
                    /\ pf.depth = 24
                    /\ pf.color_spec.red_max = 255
                    /\ pf.color_spec.green_max = 255
                    /\ pf.color_spec.blue_max = 255
                    /\ pf.color_spec.red_shift % 8 = 0
                    /\ pf.color_spec.green_shift % 8 = 0
                    /\ pf.color_spec.blue_shift % 8 = 0
C12_Witness ==
    /\ call # None
    /\ call.fn = "is_rgb_888"
    /\ call.arg = new_colorformat(32, 24, TRUE, 16, 255, 40, 255, 24, 255)
    /\ ret = TRUE

\* C13: when the handshake completes (ServerInit is written and the task
\* enters the message loop) output_format equals input_format, whatever
\* setters ran before; and handling a SetPixelFormat leaves output_format
\* equal to the format that message carried.
C13_OutputFormatStartsAsInputFormat ==
    [][/\ (pc = "write_server_init" /\ pc' = "read_msg") =>
            state'.output_format = state'.input_format
       /\ (pc = "lock_spf" /\ pc' = "read_msg") =>
            state'.output_format = req_pf]_vars

\* C14: the ServerInit written is built after ClientInit has been read, from
\* the session state as it is then (held under the lock until the write): 2
\* bytes of width, 2 of height, the 16 bytes of input_format, the 4-byte
\* length of the configured name and the name.
C14_ServerInitFromCurrentState ==
    [][/\ (pc = "write_server_init" /\ pc' = "read_msg") =>
            /\ trace[Len(trace)] = "Rx: ClientInit"
            /\ Len(WrittenNow) = 2 + 2 + 16 + 4 + Len(args.name)
            /\ WrittenNow = U16(state.width) \o U16(state.height)
                              \o PixelFormat_write_to(state.input_format)
                              \o U32(Len(args.name)) \o args.name
       /\ (pc = "write_server_init" /\ out' # out) =>
            IsPrefix(WrittenNow, U16(state.width) \o U16(state.height)
                                    \o PixelFormat_write_to(state.input_format)
                                    \o U32(Len(args.name)) \o args.name)]_vars
C14_Witness ==
    /\ pc = "read_msg"
    /\ nsent = 0
    /\ state.width = 800
    /\ state.input_format = PF_565
    /\ state.output_format = PF_RGBx
    /\ SubSeq(out, Len(out) - Len(args.name) - 23, Len(out) - Len(args.name) - 4)
          = U16(800) \o U16(600) \o PixelFormat_write_to(PF_565)

\* C15: ServerInit is written at most once; the message loop never goes back
\* to the handshake; and every write of the message loop is one
\* FramebufferUpdate (type byte 0), written where the loop answers a request,
\* whatever the setters did to the session state.
C15_NoHandshakeMessageAfterEstablished ==
    [][/\ (trace' # trace /\ trace'[Len(trace')] = "Tx: ServerInit") =>
            \A i \in 1..Len(trace) : trace[i] # "Tx: ServerInit"
       /\ pc \in LoopPcs => pc' \in LoopPcs \cup {"closed", "panic"}
       /\ pc \in {"closed", "panic", "hs_failed"} => (pc' = pc /\ out' = out)
       /\ (pc \in LoopPcs /\ out' # out) =>
            /\ pc = "write_fbu"
            /\ WrittenNow[1] = 0
            /\ IsPrefix(WrittenNow, FramebufferUpdate_write_to(fbu))
       /\ (pc \in LoopPcs /\ trace' = Append(trace, "Tx: FramebufferUpdate")) =>
            /\ pc = "write_fbu"
            /\ WrittenNow = FramebufferUpdate_write_to(fbu)]_vars
C15_Witness ==
    /\ pc = "read_msg"
    /\ nsent = 2
    /\ inp = <<>>
    /\ trace = SuccessOrder \o << "Rx: SetPixelFormat", "Rx: FramebufferUpdateRequest",
                                  "updatef", "Tx: FramebufferUpdate" >>
    /\ state.width = 800

\* C16: the loop ends only where a read of a client message fails or the
\* write of a FramebufferUpdate fails; after a message is decoded and handled
\* the task is back at the read of the next message with the lock released;
\* and once the loop has ended the task reads nothing, writes nothing,
\* holds no lock and changes nothing of the session state.
C16_LoopEndsAtFirstErrorOnly ==
    [][/\ (pc \in LoopPcs /\ pc' \notin LoopPcs) =>
            \/ /\ pc = "read_msg"
               /\ ClientMessage_read_from(rbuf \o inp).res # "ok"
               /\ out' = out
            \/ /\ pc = "write_fbu"
               /\ trace' = Append(trace, "could not write FramebufferUpdateRequest")
               /\ WrittenNow # FramebufferUpdate_write_to(fbu)
       /\ (pc \in LoopPcs /\ pc' \notin LoopPcs) => (lock' = "free" /\ state' = state)
       /\ (pc = "read_msg" /\ pc' # pc
             /\ ClientMessage_read_from(rbuf \o inp).res = "ok") =>
            pc' \in {"lock_spf", "call_updatef"}
       /\ (pc = "read_msg" /\ TaskStep
             /\ ClientMessage_read_from(rbuf \o inp).res = "ok") =>
            pc' \in LoopPcs
       /\ (pc = "lock_spf" /\ TaskStep) => (pc' = "read_msg" /\ lock' = "free")
       /\ (pc = "call_updatef" /\ TaskStep) => pc' = "lock_fbu"
       /\ (pc = "lock_fbu" /\ TaskStep) => pc' = "write_fbu"
       /\ (pc = "write_fbu" /\ ~TaskStep) => (lock' = lock /\ fbu' = fbu)
       /\ (pc = "write_fbu" /\ TaskStep) =>
            \/ /\ WrittenNow = FramebufferUpdate_write_to(fbu)
               /\ pc' = "read_msg"
               /\ lock' = "free"
            \/ /\ WrittenNow # FramebufferUpdate_write_to(fbu)
               /\ pc' = "closed"
       /\ (pc = "read_msg" /\ TaskStep
             /\ ClientMessage_read_from(rbuf \o inp).res # "ok") =>
            pc' \notin LoopPcs
       /\ pc \in {"closed", "panic"} =>
            /\ pc' = pc
            /\ out' = out
            /\ nread' = nread
            /\ inp' = inp
            /\ trace' = trace
            /\ lock = "free" /\ lock' = "free"
            /\ state'.output_format = state.output_format]_vars
C16_Witness ==
    /\ pc = "closed"
    /\ trace = SuccessOrder \o << "Rx: FramebufferUpdateRequest", "updatef",
                                  "could not write FramebufferUpdateRequest" >>
    /\ inp # <<>>

\* The decoded messages other than FramebufferUpdateRequest.
OtherRx ==
    { "Rx: SetPixelFormat", "Rx: SetEncodings", "Rx: KeyEvent", "Rx: PointerEvent",
      "Rx: ClientCutText" }

\* C17: in the record of what the task did, every decoded
\* FramebufferUpdateRequest is followed by one call of the producer and then
\* by the write of one FramebufferUpdate (or the failure of that write),
\* before anything else; the producer is called and an update written nowhere
\* else; and after any other decoded message the next thing the task does is
\* a read.
C17_OneUpdatePerRequest ==
    /\ \A i \in 1..Len(trace) :
          /\ (trace[i] = "Rx: FramebufferUpdateRequest" /\ i < Len(trace)) =>
                trace[i + 1] = "updatef"
          /\ trace[i] = "updatef" =>
                /\ i > 1 /\ trace[i - 1] = "Rx: FramebufferUpdateRequest"
                /\ i < Len(trace) =>
                      trace[i + 1] \in {"Tx: FramebufferUpdate",
                                        "could not write FramebufferUpdateRequest"}
          /\ trace[i] = "Tx: FramebufferUpdate" => (i > 1 /\ trace[i - 1] = "updatef")
          /\ (trace[i] \in OtherRx /\ i < Len(trace)) =>
                trace[i + 1] \in OtherRx \cup {"Rx: FramebufferUpdateRequest",
                                               "error reading client message"}
    /\ pc = "call_updatef" <=>
          (trace # <<>> /\ trace[Len(trace)] = "Rx: FramebufferUpdateRequest")
    /\ pc \in {"lock_fbu", "write_fbu"} <=>
          (trace # <<>> /\ trace[Len(trace)] = "updatef")
    /\ (/\ Len(trace) >= 7
        /\ \A i \in 1..Len(trace) : trace[i] # "updatef") =>
          Len(out) = 12 + 1 + Len(args.sec_types) + 4 + 24 + Len(args.name)
C17_Witness ==
    /\ pc = "read_msg"
    /\ trace = SuccessOrder \o << "Rx: FramebufferUpdateRequest", "updatef",
                                  "Tx: FramebufferUpdate", "Rx: KeyEvent" >>

\* C19: a call of initialize with an empty list of security types ends in the
\* failed assertion with nothing written and nothing read, and wherever the
\* handshake is at or past the security step the list is not empty.
C19_EmptySecurityTypesAssert ==
    /\ (args # None /\ Len(args.sec_types) = 0) =>
          /\ pc = "panic"
          /\ out = <<>>
          /\ nread = 0
          /\ trace = <<>>
          /\ err = NoErr
    /\ pc \in {"write_sec_types", "read_choice", "write_failure", "write_success"} =>
          Len(args.sec_types) > 0
C19_Witness ==
    /\ pc = "panic"
    /\ args # None
    /\ args.sec_types = <<>>

\* C20: when the type the client chose is one of the offered types, the next
\* thing the task does after reading the choice is the write of
\* SecurityResult::Success, 4 zero bytes and nothing else, with nothing read
\* in between; this is so for VncAuthentication as for None.
C20_SuccessRightAfterOfferedChoice ==
    [][/\ (/\ pc = "read_choice"
           /\ client_choice' # "none"
           /\ \E i \in 1..Len(args.sec_types) : args.sec_types[i] = client_choice') =>
            /\ pc' = "write_success"
            /\ out' = out
            /\ nread' = nread + 1
       /\ pc = "write_success" =>
            /\ nread' = nread
            /\ IsPrefix(WrittenNow, <<0, 0, 0, 0>>)
       /\ (pc = "write_success" /\ TaskStep) =>
            \/ /\ WrittenNow = <<0, 0, 0, 0>>
               /\ pc' = "read_client_init"
            \/ /\ WrittenNow # <<0, 0, 0, 0>>
               /\ pc' = "hs_failed"
               /\ err' = IoErr]_vars
C20_Witness ==
    /\ pc = "write_success"
    /\ client_choice = "VncAuthentication"
    /\ args.sec_types = <<"None", "VncAuthentication">>
    /\ nread = 13

\* The reads at which a connection's peer can stay silent.
ReadPcs == {"read_version", "read_choice", "read_client_init", "read_msg"}

\* C18: whenever one client's connection is waiting at a read, in the
\* handshake or in the message loop, and another client is waiting to be
\* accepted, the example's main is at listener.accept() (so the second
\* client is accepted and served without the first one sending anything);
\* and a SetPixelFormat of one client changes no other client's state.
C18_ConnectionsRunIndependently ==
    [][/\ \A c, d \in Conns :
            (c # d /\ conns'[c].pc \in ReadPcs /\ conns'[d].pc = "pending") =>
                accept'.pc = "accept"
       /\ \A c, d \in Conns :
            (/\ c # d
             /\ conns[c].pc = "read_msg"
             /\ conns'[c].state # conns[c].state) => conns'[d] = conns[d]]_vars

\* C21: the ClientInit byte is decoded as shared = (byte is not 0); reading
\* it writes nothing and changes nothing of the session state; and what the
\* task does next (ServerInit built from the session state and written) is
\* the same whatever was decoded, after which the decoded value is gone.
C21_ClientInitHasNoInfluence ==
    [][/\ \A f \in ClientInitBytes :
            ReadClientInit(f) => (client_init'.shared <=> f # 0)
       /\ (pc = "read_client_init" /\ pc' = "lock_init") =>
            /\ out' = out
            /\ state' = state
            /\ lock' = lock
            /\ server_init' = server_init
            /\ nread' = nread + 1
       /\ (pc = "lock_init" /\ TaskStep) =>
            /\ server_init' = ServerInit(state.width, state.height, args.name,
                                         state.input_format)
            /\ out' = out
            /\ state' = state
       /\ (pc = "write_server_init" /\ TaskStep) =>
            /\ client_init' = None
            /\ state' = state
            /\ lock' = "free"
            /\ IsPrefix(WrittenNow, ServerInit_write_to(server_init))
            /\ \/ /\ WrittenNow = ServerInit_write_to(server_init)
                  /\ pc' = "read_msg"
               \/ /\ WrittenNow # ServerInit_write_to(server_init)
                  /\ pc' = "hs_failed"
                  /\ err' = IoErr
       /\ (pc = "write_server_init" /\ ~TaskStep) =>
            /\ IsPrefix(WrittenNow, ServerInit_write_to(server_init))
            /\ client_init' = client_init
            /\ server_init' = server_init
            /\ lock' = lock]_vars
C21_Witness ==
    /\ pc = "write_server_init"
    /\ client_init = [shared |-> TRUE]
    /\ nread = 14

\* C22: for a format with a ColorFormat, write_to gives 16 bytes:
\* bits_per_pixel, depth, the big-endian flag, a non-zero true-colour flag,
\* the three maxima as 2 bytes each, high byte first, the three shifts, 3
\* bytes of padding; and read_from on those bytes consumes the 16 and gives
\* back the format.
C22_PixelFormatRoundTrip ==
    (call # None /\ call.fn = "PixelFormat::write_to, read_from") =>
        LET pf == call.arg
            cs == pf.color_spec
            b == ret.bytes
        IN  /\ Len(b) = 16
            /\ b[1] = pf.bits_per_pixel
            /\ b[2] = pf.depth
            /\ (b[3] # 0) <=> pf.big_endian
            /\ b[4] # 0
            /\ b[5] * 256 + b[6] = cs.red_max
            /\ b[7] * 256 + b[8] = cs.green_max
            /\ b[9] * 256 + b[10] = cs.blue_max
            /\ << b[11], b[12], b[13] >> = << cs.red_shift, cs.green_shift, cs.blue_shift >>
            /\ << b[14], b[15], b[16] >> = << 0, 0, 0 >>
            /\ ret.read.res = "ok"
            /\ ret.read.used = 16
            /\ ret.read.pf = pf
C22_Witness ==
    /\ call # None
    /\ call.fn = "PixelFormat::write_to, read_from"
    /\ call.arg = new_colorformat(16, 24, TRUE, 4, 63, 40, 127, 24, 256)
    /\ ret.read.pf = call.arg

\* bits_per_pixel is 8, 16 or 32 and depth is at most bits_per_pixel.
WellFormed(pf) ==
    /\ pf.bits_per_pixel \in {8, 16, 32}
    /\ pf.depth <= pf.bits_per_pixel

\* C23: in every state of the session both input_format and output_format
\* are well-formed, whatever SetPixelFormat messages the client sent.
C23_SessionFormatsWellFormed ==
    /\ WellFormed(state.input_format)
    /\ WellFormed(state.output_format)

\* What a caller can match an error on: for an anyhow error made from a
\* message there is nothing but the message's type, for an I/O error the
\* std::io::Error.  The kinds of the generic errors of the handshake:
GenericErrorKinds ==
    { MsgErr("invalid protocol version").kind, MsgErr("invalid security type").kind,
      IoErr.kind }

\* C24: when the handshake fails because the client's version is too old or
\* because its security type is not offered, the error returned has a kind
\* of its own, none of the kinds of the generic errors (a malformed version
\* string, an invalid security-type byte, an I/O error).
C24_NegotiationFailuresAreTyped ==
    (/\ pc = "hs_failed"
     /\ err.text \in {"unsupported client version", "invalid security choice"}) =>
        err.kind \notin GenericErrorKinds

\* C25: the 2-byte count in the header of a FramebufferUpdate written is the
\* number of rectangles written after it, for every number of rectangles
\* (65536 and more included), and the rectangles follow in the order the
\* producer gave them.
C25_RectangleCountMatches ==
    (call # None /\ call.fn = "FramebufferUpdate::write_to") =>
        /\ ret.header[3] * 256 + ret.header[4] = ret.rectangles_written
        /\ call.arg <= MaxBytesKept =>
              /\ Len(ret.bytes) = 4 + 16 * call.arg
              /\ SubSeq(ret.bytes, 1, 4) = ret.header
              /\ \A i \in 1..call.arg :
                    SubSeq(ret.bytes, 4 + 16 * (i - 1) + 1, 4 + 16 * i)
                        = <<0, i, 0, 0, 0, 1, 0, 1, 0, 0, 0, 0>> \o Pixel

\* The wire length of the fixed-layout message that starts the bytes s.
WireLength(s) ==
    CASE s[1] = 0 -> 1 + 3 + 16
      [] s[1] = 3 -> 1 + 1 + 4 + 4
      [] s[1] = 4 -> 1 + 1 + 2 + 4
      [] s[1] = 5 -> 1 + 1 + 4
      [] s[1] = 2 -> 1 + 1 + 2 + 4 * (s[3] * 256 + s[4])

\* C26: the decode of a SetPixelFormat, FramebufferUpdateRequest, KeyEvent,
\* PointerEvent or SetEncodings message succeeds and consumes exactly the
\* message's wire length, leaving the next tag as the next byte; a KeyEvent
\* has is_pressed iff its flag byte is not 0 and keysym_raw = the 4 bytes
\* read high byte first; a SetEncodings of count n has n encodings.
C26_FixedLayoutsConsumeTheirLength ==
    (call # None /\ call.fn = "ClientMessage::read_from") =>
        LET s == call.arg
        IN  /\ ret.res = "ok"
            /\ ret.used = WireLength(s)
            /\ s[1] = 0 => ret.msg.type = "SetPixelFormat"
            /\ s[1] = 3 => ret.msg.type = "FramebufferUpdateRequest"
            /\ s[1] = 5 => ret.msg.type = "PointerEvent"
            /\ s[1] = 4 =>
                  /\ ret.msg.type = "KeyEvent"
                  /\ ret.msg.is_pressed <=> s[2] # 0
                  /\ ret.msg.keysym_raw
                        = ((s[5] * 256 + s[6]) * 256 + s[7]) * 256 + s[8]
            /\ s[1] = 2 =>
                  /\ ret.msg.type = "SetEncodings"
                  /\ Len(ret.msg.encodings) = s[3] * 256 + s[4]
C26_Witness ==
    /\ call # None
    /\ call.fn = "ClientMessage::read_from"
    /\ call.arg = ClientSetEncodings(<<0, 0>>) \o <<3, 0>>
    /\ ret.used = 12

\* C27: FramebufferUpdate::transform returns an update of as many rectangles
\* as the one it was called on, in the same order, each with the position and
\* the dimensions of the rectangle at its index and with the payload made
\* from that rectangle's payload; the update it was called on is unchanged.
C27_TransformKeepsRectangles ==
    (call # None /\ call.fn = "FramebufferUpdate::transform") =>
        LET u == call.arg.self
            t == ret.result
        IN  /\ ret.self = u
            /\ Len(t) = Len(u)
            /\ \A i \in 1..Len(u) :
                  /\ t[i].position = u[i].position
                  /\ t[i].dimensions = u[i].dimensions
                  /\ t[i].data = Encoding_transform(u[i].data, call.arg.input_pf,
                                                    call.arg.output_pf)
                  /\ Len(t[i].data.pixels) = Len(u[i].data.pixels)
C27_Witness ==
    /\ call # None
    /\ call.fn = "FramebufferUpdate::transform"
    /\ Len(call.arg.self) = 3
    /\ call.arg.self[1] # call.arg.self[3]
    /\ call.arg.input_pf # call.arg.output_pf
    /\ ret.result # call.arg.self

\* C28: from the step in which the producer returns an update (rendered in
\* the input_format of that moment) to the step in which the loop takes the
\* lock and decides on the transform, input_format does not change, so the
\* format the transform uses is the one the update was rendered in.
C28_TransformUsesRenderTimeInputFormat ==
    [][pc = "lock_fbu" => state'.input_format = state.input_format]_vars

\* C29: the loop holds the lock only from taking it for an update to the end
\* of that update's write: it is free while the loop awaits the next message
\* or the producer (so set_pixel_format and set_resolution can run then),
\* before either of its two acquisitions, and after the loop has returned,
\* the return on a failed write included.
C29_LockHeldOnlyAcrossTheWrite ==
    /\ pc \in {"read_msg", "lock_spf", "call_updatef", "lock_fbu", "closed"} =>
          lock = "free"
    /\ (lock = "conn" /\ pc \in LoopPcs) => pc = "write_fbu"
    /\ pc = "call_updatef" =>
          /\ ENABLED (\E f \in InputFormats : set_pixel_format(f))
          /\ ENABLED (\E r \in Resolutions : set_resolution(r.width, r.height))
C29_Witness ==
    /\ pc = "closed"
    /\ lock = "free"
    /\ Len(trace) >= 2
    /\ trace[Len(trace)] = "could not write FramebufferUpdateRequest"
    /\ trace[Len(trace) - 1] = "updatef"

\* C30: when the handshake of the connection that main is initializing
\* fails (its task's connection is closed before the message loop), main is
\* back at listener.accept() and no other connection is touched: a client
\* still pending can be accepted and the ones in their message loops go on.
C30_FailedHandshakeIsLocal ==
    [][\A c \in Conns :
         (/\ accept.pc = "initialize"
          /\ accept.conn = c
          /\ conns'[c].pc = "closed") =>
              /\ accept'.pc = "accept"
              /\ \A d \in Conns \ {c} : conns'[d] = conns[d]]_vars

\* C31: when an update is written and the input format is a 32-bit one (the
\* producer returns width * height * 4 bytes per rectangle), the payload
\* of every rectangle written has width * height * (bits_per_pixel / 8)
\* bytes for the bits_per_pixel of the output format of that moment.
C31_PayloadLengthFitsOutputFormat ==
    [][(/\ pc = "write_fbu"
        /\ out' # out
        /\ state.input_format.bits_per_pixel = 32
        /\ \A i \in 1..Len(produced) :
              Len(produced[i].data.pixels)
                = produced[i].dimensions.width * produced[i].dimensions.height * 4) =>
            \A i \in 1..Len(fbu) :
                Len(Encoding_encode(fbu[i].data))
                  = fbu[i].dimensions.width * fbu[i].dimensions.height
                      * (state.output_format.bits_per_pixel \div 8)]_vars

\* C32: set_pixel_format(pf) makes input_format pf and leaves output_format,
\* width and height as they were; set_resolution(w, h) makes width w and
\* height h and leaves both formats as they were; neither writes a byte,
\* and a step that changes the session state while the connection's task
\* and its client stand still changes either input_format only or width
\* and height only.
C32_SettersChangeOnlyTheirFields ==
    [][/\ \A f \in InputFormats :
            set_pixel_format(f) =>
                /\ state'.input_format = f
                /\ state'.output_format = state.output_format
                /\ state'.width = state.width
                /\ state'.height = state.height
                /\ out' = out
       /\ \A r \in Resolutions :
            set_resolution(r.width, r.height) =>
                /\ state'.width = r.width
                /\ state'.height = r.height
                /\ state'.input_format = state.input_format
                /\ state'.output_format = state.output_format
                /\ out' = out
       /\ (state # None /\ state' # state /\ ~TaskStep /\ inp' = inp) =>
            /\ out' = out
            /\ state'.output_format = state.output_format
            /\ \/ /\ state'.width = state.width
                  /\ state'.height = state.height
               \/ state'.input_format = state.input_format]_vars
C32_Witness ==
    /\ state # None
    /\ state.input_format = PF_565
    /\ state.output_format = PF_BGRx
    /\ state.width = 800
    /\ state.height = 600
    /\ out # <<>>

====
